---------------------------- MODULE Spec2Model ----------------------------
(***************************************************************************)
(* A model of the airline-policy scraper: the text heuristics of           *)
(* src/utils.py, the scrape orchestration of src/scrapers/base_scraper.py, *)
(* the SQLite store of src/database.py and the batch driver of main.py.    *)
(*                                                                         *)
(* Python values are written as follows.  Optional[T] is a sequence of     *)
(* length at most one: None is <<>> and a value v is <<v>>.  A float that  *)
(* results from an integer division is the exact fraction [num, den].      *)
(* Text is a TLA+ string; characters are its substrings of length one.     *)
(***************************************************************************)
EXTENDS Integers, Sequences, FiniteSets, TLC

VARIABLES
    \* ---- detect_boolean_policy (src/utils.py) ----
    text,               \* argument `text`
    keywords,           \* argument `keywords` (<<>> is None or [])
    positive_matches,   \* local counter
    negative_matches,   \* local counter
    boolResult,         \* <<>> before the call returns, then <<[value, confidence]>>
    bpc                 \* "call" | "done"

boolVars == <<text, keywords, positive_matches, negative_matches, boolResult, bpc>>

-----------------------------------------------------------------------------
(* Optional values *)

None == <<>>

Some(v) == <<v>>

IsNone(x) == x = <<>>

Val(x) == x[1]

-----------------------------------------------------------------------------
(* Strings: str.lower, str.strip, the `in` operator *)

UpperAlphabet == "ABCDEFGHIJKLMNOPQRSTUVWXYZÁÉÍÓÚÑ"

LowerAlphabet == "abcdefghijklmnopqrstuvwxyzáéíóúñ"

Whitespace == {" ", "\t", "\n", "\r"}

CharAt(s, i) == SubSeq(s, i, i)

LowerChar(c) ==
    IF \E i \in 1..Len(UpperAlphabet) : CharAt(UpperAlphabet, i) = c
    THEN CharAt(LowerAlphabet, CHOOSE i \in 1..Len(UpperAlphabet) : CharAt(UpperAlphabet, i) = c)
    ELSE c

\* (the string is halved, which keeps the evaluation shallow)
RECURSIVE Lower(_)
Lower(s) ==
    IF Len(s) = 0 THEN ""
    ELSE IF Len(s) = 1 THEN LowerChar(s)
    ELSE LET h == Len(s) \div 2
         IN  Lower(SubSeq(s, 1, h)) \o Lower(SubSeq(s, h + 1, Len(s)))

RECURSIVE LStrip(_)
LStrip(s) ==
    IF Len(s) > 0 /\ CharAt(s, 1) \in Whitespace THEN LStrip(SubSeq(s, 2, Len(s))) ELSE s

RECURSIVE RStrip(_)
RStrip(s) ==
    IF Len(s) > 0 /\ CharAt(s, Len(s)) \in Whitespace THEN RStrip(SubSeq(s, 1, Len(s) - 1)) ELSE s

Strip(s) == RStrip(LStrip(s))

\* needle in haystack
Contains(haystack, needle) ==
    \E i \in 1..(Len(haystack) - Len(needle) + 1) :
        SubSeq(haystack, i, i + Len(needle) - 1) = needle

-----------------------------------------------------------------------------
(* Regular expressions of the shape the keyword lists use: a sequence of   *)
(* literals, \s+ and optional non-capturing groups (?: ... )?              *)

Lit(s) == [t |-> "lit", s |-> s, p |-> <<>>]

Ws1 == [t |-> "ws1", s |-> "", p |-> <<>>]

Opt(p) == [t |-> "opt", s |-> "", p |-> p]

\* \s*
Ws0 == [t |-> "ws0", s |-> "", p |-> <<>>]

\* (?:a|b|c), the alternatives being literals
Alt(literals) == [t |-> "alt", s |-> "", p |-> literals]

\* (?:\s|$)
WsOrEnd == [t |-> "wsend", s |-> "", p |-> <<>>]

\* the number of whitespace characters of s starting at position i
RECURSIVE WsRun(_, _)
WsRun(s, i) ==
    IF i <= Len(s) /\ CharAt(s, i) \in Whitespace THEN 1 + WsRun(s, i + 1) ELSE 0

\* the positions at which a match of pat[k..] that starts at position i of s can end
RECURSIVE MatchEnds(_, _, _, _)
MatchEnds(pat, k, s, i) ==
    IF k > Len(pat) THEN {i}
    ELSE LET e == pat[k] IN
         CASE e.t = "lit" ->
                IF i + Len(e.s) - 1 <= Len(s) /\ SubSeq(s, i, i + Len(e.s) - 1) = e.s
                THEN MatchEnds(pat, k + 1, s, i + Len(e.s))
                ELSE {}
           [] e.t = "ws1" ->
                UNION {MatchEnds(pat, k + 1, s, i + j) : j \in 1..WsRun(s, i)}
           [] e.t = "opt" ->
                MatchEnds(pat, k + 1, s, i)
                    \cup UNION {MatchEnds(pat, k + 1, s, j) : j \in MatchEnds(e.p, 1, s, i)}
           [] e.t = "ws0" ->
                UNION {MatchEnds(pat, k + 1, s, i + j) : j \in 0..WsRun(s, i)}
           [] e.t = "alt" ->
                UNION { IF /\ i + Len(e.p[a]) - 1 <= Len(s)
                           /\ SubSeq(s, i, i + Len(e.p[a]) - 1) = e.p[a]
                        THEN MatchEnds(pat, k + 1, s, i + Len(e.p[a]))
                        ELSE {} : a \in 1..Len(e.p) }
           [] e.t = "wsend" ->
                IF i = Len(s) + 1 THEN MatchEnds(pat, k + 1, s, i)
                ELSE IF WsRun(s, i) > 0 THEN MatchEnds(pat, k + 1, s, i + 1)
                ELSE {}

\* re.search(pattern, text) is not None
ReSearch(pat, s) == \E i \in 1..(Len(s) + 1) : MatchEnds(pat, 1, s, i) # {}

-----------------------------------------------------------------------------
(* src/utils.py: keyword lists and detect_boolean_policy *)

NoSe(word) == <<Lit("no"), Ws1, Opt(<<Lit("se"), Ws1>>), Lit(word)>>

NoEs(word) == <<Lit("no"), Ws1, Opt(<<Lit("es"), Ws1>>), Lit(word)>>

KEYWORDS_NEGATIVE ==
    << NoSe("permite"),
       NoEs("posible"),
       NoSe("autoriza"),
       <<Lit("imposible")>>,
       <<Lit("prohibido")>>,
       NoSe("puede"),
       NoEs("permitido"),
       <<Lit("no"), Ws1, Lit("reembolsable")>> >>

KEYWORDS_POSITIVE ==
    << <<Lit("permite")>>,
       <<Lit("posible")>>,
       <<Lit("puede")>>,
       <<Lit("autorizado")>>,
       <<Lit("permitido")>>,
       <<Lit("disponible")>>,
       <<Lit("se"), Ws1, Lit("acepta")>> >>

\* the number of patterns of the list that are found in s
CountPatterns(patterns, s) ==
    Cardinality({k \in 1..Len(patterns) : ReSearch(patterns[k], s)})

\* the number of caller keywords whose lower case is a substring of s
CountKeywords(kws, s) ==
    Cardinality({k \in 1..Len(kws) : Contains(s, Lower(kws[k]))})

\* fractions
Frac(n, d) == [num |-> n, den |-> d]

FracLeq(a, b) == a.num * b.den <= b.num * a.den

FracEq(a, b) == a.num * b.den = b.num * a.den

FracMin(a, b) == IF FracLeq(a, b) THEN a ELSE b

Zero == Frac(0, 1)

\* the cap 0.9 of the confidence
ConfidenceCap == Frac(9, 10)

BoolResult(value, confidence) == [value |-> value, confidence |-> confidence]

\* a mutant of Confidence: the cap is forgotten
Confidence_NoCap(side, positive, negative) == Frac(side, positive + negative + 1)

\* min(side / (positive + negative + 1), 0.9)
Confidence(side, positive, negative) ==
    FracMin(Frac(side, positive + negative + 1), ConfidenceCap)

\* a mutant of DecideFromCounts: the negative branch divides the positive count
DecideFromCounts_CopyPaste(positive, negative) ==
    IF positive > negative
    THEN BoolResult(Some(TRUE), Confidence(positive, positive, negative))
    ELSE IF negative > positive
    THEN BoolResult(Some(FALSE), Confidence(positive, positive, negative))
    ELSE BoolResult(None, Zero)

\* a mutant of DecideFromCounts: the denominator lacks the + 1
DecideFromCounts_NoPlusOne(positive, negative) ==
    IF positive > negative
    THEN BoolResult(Some(TRUE), FracMin(Frac(positive, positive + negative), ConfidenceCap))
    ELSE IF negative > positive
    THEN BoolResult(Some(FALSE), FracMin(Frac(negative, positive + negative), ConfidenceCap))
    ELSE BoolResult(None, Zero)

\* a mutant of DecideFromCounts: the denominator has + 2 in place of + 1
DecideFromCounts_PlusTwo(positive, negative) ==
    IF positive > negative
    THEN BoolResult(Some(TRUE), FracMin(Frac(positive, positive + negative + 2), ConfidenceCap))
    ELSE IF negative > positive
    THEN BoolResult(Some(FALSE), FracMin(Frac(negative, positive + negative + 2), ConfidenceCap))
    ELSE BoolResult(None, Zero)

\* the last statement of detect_boolean_policy: the decision from the two counts
DecideFromCounts(positive, negative) ==
    IF positive > negative
    THEN BoolResult(Some(TRUE), Confidence(positive, positive, negative))
    ELSE IF negative > positive
    THEN BoolResult(Some(FALSE), Confidence(negative, positive, negative))
    ELSE BoolResult(None, Zero)

\* the two counters as detect_boolean_policy leaves them for a non-empty text
PositiveCount(txt, kws) ==
    LET t == Strip(Lower(txt)) IN
    CountPatterns(KEYWORDS_POSITIVE, t) + (IF kws # <<>> THEN CountKeywords(kws, t) ELSE 0)

NegativeCount(txt) == CountPatterns(KEYWORDS_NEGATIVE, Strip(Lower(txt)))

\* detect_boolean_policy(text, keywords)
detect_boolean_policy(txt, kws) ==
    IF txt = "" THEN BoolResult(None, Zero)
    ELSE DecideFromCounts(PositiveCount(txt, kws), NegativeCount(txt))

-----------------------------------------------------------------------------
(* src/utils.py: the amount patterns, extract_cop_amount, extract_usd_amount *)

Digits == "0123456789"

IsDigit(c) == \E d \in 1..Len(Digits) : CharAt(Digits, d) = c

DigitValue(c) == (CHOOSE d \in 1..Len(Digits) : CharAt(Digits, d) = c) - 1

\* the length of the run of [\d,.] of s that starts at position i
RECURSIVE AmountRun(_, _)
AmountRun(s, i) ==
    IF i <= Len(s) /\ (IsDigit(CharAt(s, i)) \/ CharAt(s, i) \in {",", "."})
    THEN 1 + AmountRun(s, i + 1)
    ELSE 0

\* a pattern with its one group ([\d,.]+): what stands before and after it.
\* The patterns are compiled with re.IGNORECASE; their letters are in lower
\* case here and they are matched against the text in lower case
AmountPattern(before, after) == [before |-> before, after |-> after]

REGEX_COSTOS_COP ==
    << AmountPattern(<<Lit("$"), Ws0>>, <<Ws0, Alt(<<"cop", "pesos">>)>>),
       AmountPattern(<<>>, <<Ws0, Lit("pesos"), Ws1, Lit("colombianos")>>),
       AmountPattern(<<Lit("valor"), Opt(<<Ws1, Lit("de")>>), Ws1, Opt(<<Lit("$")>>), Ws0>>, <<>>),
       AmountPattern(<<Lit("$"), Ws0>>, <<WsOrEnd>>),
       AmountPattern(<<>>, <<Ws0, Lit("cop")>>) >>

REGEX_COSTOS_USD ==
    << AmountPattern(<<Lit("us"), Opt(<<Lit("d")>>), Ws0, Opt(<<Lit("$")>>), Ws0>>, <<>>),
       AmountPattern(<<Lit("$"), Ws0>>, <<Ws0, Alt(<<"usd", "dólares", "dolares">>)>>),
       AmountPattern(<<>>, <<Ws0, Lit("dólare"), Opt(<<Lit("s")>>)>>) >>

\* the groups of the matches of the pattern that start at position i of s: the
\* group is the whole run, a shorter one being followed by a character of
\* the run, which nothing that stands after the group matches
GroupsAt(pattern, s, i) ==
    { SubSeq(s, j, j + AmountRun(s, j) - 1) :
        j \in { e \in MatchEnds(pattern.before, 1, s, i) :
                    /\ AmountRun(s, e) >= 1
                    /\ MatchEnds(pattern.after, 1, s, e + AmountRun(s, e)) # {} } }

\* re.findall(pattern, text, re.IGNORECASE): its first element, None for []
FirstGroup(pattern, txt) ==
    LET s == Lower(txt)
        starts == {i \in 1..Len(s) : GroupsAt(pattern, s, i) # {}}
    IN  IF starts = {} THEN None
        ELSE LET first == CHOOSE i \in starts : \A j \in starts : i <= j
             IN  Some(CHOOSE g \in GroupsAt(pattern, s, first) : TRUE)

\* str.replace(c, '')
RECURSIVE Remove(_, _)
Remove(s, c) ==
    IF Len(s) = 0 THEN ""
    ELSE (IF CharAt(s, 1) = c THEN "" ELSE CharAt(s, 1)) \o Remove(SubSeq(s, 2, Len(s)), c)

\* the number a string of digits writes
RECURSIVE DigitsToInt(_)
DigitsToInt(s) ==
    IF Len(s) = 0 THEN 0
    ELSE 10 * DigitsToInt(SubSeq(s, 1, Len(s) - 1)) + DigitValue(CharAt(s, Len(s)))

AllDigits(s) == \A i \in 1..Len(s) : IsDigit(CharAt(s, i))

RECURSIVE PowerOfTen(_)
PowerOfTen(n) == IF n = 0 THEN 1 ELSE 10 * PowerOfTen(n - 1)

\* int(s) of a string of [\d,.]: None where it raises ValueError
ParseInt(s) == IF Len(s) > 0 /\ AllDigits(s) THEN Some(DigitsToInt(s)) ELSE None

\* float(s) of a string of [\d,.], as a fraction: None where it raises ValueError
ParseFloat(s) ==
    LET dots == {i \in 1..Len(s) : CharAt(s, i) = "."}
    IN  IF dots = {}
        THEN (IF Len(s) > 0 /\ AllDigits(s) THEN Some(Frac(DigitsToInt(s), 1)) ELSE None)
        ELSE LET dot == CHOOSE i \in dots : TRUE
                 whole == SubSeq(s, 1, dot - 1)
                 decimals == SubSeq(s, dot + 1, Len(s))
             IN  IF /\ Cardinality(dots) = 1
                    /\ AllDigits(whole) /\ AllDigits(decimals)
                    /\ Len(whole) + Len(decimals) > 0
                 THEN Some(Frac(DigitsToInt(whole \o decimals), PowerOfTen(Len(decimals))))
                 ELSE None

\* matches[0].replace(',', '').replace('.', '')
CleanCopAmount(group) == Remove(Remove(group, ","), ".")

\* matches[0].replace(',', '')
CleanUsdAmount(group) == Remove(group, ",")

\* a mutant of except_ValueError: the error leaves the function
except_ValueError_Propagates(next) == [raised |-> TRUE, value |-> None]

\* "except ValueError: continue": the loop goes on with the next pattern
except_ValueError(next) == next

\* the loop "for pattern in REGEX_COSTOS_COP" from the k-th pattern on: the
\* first match is cleaned and parsed; "return None" after the last pattern
RECURSIVE CopFrom(_, _)
CopFrom(k, txt) ==
    IF k > Len(REGEX_COSTOS_COP) THEN [raised |-> FALSE, value |-> Some(None)]
    ELSE LET group == FirstGroup(REGEX_COSTOS_COP[k], txt)
         IN  IF IsNone(group) THEN CopFrom(k + 1, txt)
             ELSE LET amount == ParseInt(CleanCopAmount(Val(group)))
                  IN  IF IsNone(amount) THEN except_ValueError(CopFrom(k + 1, txt))
                      ELSE [raised |-> FALSE, value |-> Some(amount)]

\* extract_cop_amount: whether it raised, and the Optional[int] it returned
extract_cop_amount(txt) ==
    IF txt = "" THEN [raised |-> FALSE, value |-> Some(None)] ELSE CopFrom(1, Strip(txt))

RECURSIVE UsdFrom(_, _)
UsdFrom(k, txt) ==
    IF k > Len(REGEX_COSTOS_USD) THEN [raised |-> FALSE, value |-> Some(None)]
    ELSE LET group == FirstGroup(REGEX_COSTOS_USD[k], txt)
         IN  IF IsNone(group) THEN UsdFrom(k + 1, txt)
             ELSE LET amount == ParseFloat(CleanUsdAmount(Val(group)))
                  IN  IF IsNone(amount) THEN except_ValueError(UsdFrom(k + 1, txt))
                      ELSE [raised |-> FALSE, value |-> Some(amount)]

\* extract_usd_amount: whether it raised, and the Optional[float] it returned
extract_usd_amount(txt) ==
    IF txt = "" THEN [raised |-> FALSE, value |-> Some(None)] ELSE UsdFrom(1, Strip(txt))

-----------------------------------------------------------------------------
(* The inputs of detect_boolean_policy: texts put together from phrases *)

MaxPhrases == 2

Phrases ==
    { "no se permite",
      "se permite",
      "el cambio de nombre",
      "es imposible",
      "prohibido",
      "No  puede",
      "puede cambiar permite cambio de nombre posible autorizado permitido disponible se acepta" }

RECURSIVE JoinWith(_, _)
JoinWith(sep, parts) ==
    IF Len(parts) = 0 THEN ""
    ELSE IF Len(parts) = 1 THEN parts[1]
    ELSE parts[1] \o sep \o JoinWith(sep, Tail(parts))

Texts == {JoinWith(" ", ps) : ps \in UNION {[1..k -> Phrases] : k \in 0..MaxPhrases}}

KeywordLists ==
    { <<>>,
      <<"puede cambiar", "permite cambio", "cambio de nombre">>,
      <<"Transferir", "transferencia">> }

-----------------------------------------------------------------------------
(* src/config.py and main.py: the configured airlines and their scrapers *)

MAX_RETRIES == 3

RETRY_BACKOFF == 2

AirlineConfig(nombre, codigo, url) == [nombre |-> nombre, codigo |-> codigo, url_politicas |-> url]

AIRLINES_CONFIG ==
    << AirlineConfig("Avianca", "AV", "https://www.avianca.com/co/es/experiencia/condiciones-transporte/"),
       AirlineConfig("LATAM", "LA", "https://www.latamairlines.com/co/es/experiencia/cambios-y-reembolsos"),
       AirlineConfig("Wingo", "P5", "https://www.wingo.com/es/ayuda/cambios-y-cancelaciones"),
       AirlineConfig("EasyFly", "VE", "https://www.easyfly.com.co/condiciones-generales"),
       AirlineConfig("Satena", "9R", "https://www.satena.com/terminos-y-condiciones/"),
       AirlineConfig("Copa Airlines", "CM", "https://www.copaair.com/es/web/co/cambios-reembolsos"),
       AirlineConfig("JetSmart", "JA", "https://jetsmart.com/co/es/condiciones-de-transporte") >>

\* The model runs the first NumAirlines entries of AIRLINES_CONFIG.
NumAirlines == 2

ConfiguredAirlines == SubSeq(AIRLINES_CONFIG, 1, NumAirlines)

ConfiguredCodes == {ConfiguredAirlines[i].codigo : i \in 1..NumAirlines}

\* the keys of SCRAPER_MAP
SCRAPER_MAP == {AIRLINES_CONFIG[i].codigo : i \in 1..Len(AIRLINES_CONFIG)}

\* The constructor arguments of the scraper class SCRAPER_MAP gives for a code
\* (AviancaScraper, LatamScraper, WingoScraper, SatenaScraper; the classes of
\* VE, CM and JA are imported by main.py from modules outside src/ and take
\* their arguments from AIRLINES_CONFIG here).
ScraperClass(code) ==
    LET c == AIRLINES_CONFIG[CHOOSE i \in 1..Len(AIRLINES_CONFIG) : AIRLINES_CONFIG[i].codigo = code]
    IN  [airline_name |-> c.nombre, airline_code |-> c.codigo, policies_url |-> c.url_politicas]

\* str.upper
UpperChar(c) ==
    IF \E i \in 1..Len(LowerAlphabet) : CharAt(LowerAlphabet, i) = c
    THEN CharAt(UpperAlphabet, CHOOSE i \in 1..Len(LowerAlphabet) : CharAt(LowerAlphabet, i) = c)
    ELSE c

RECURSIVE Upper(_)
Upper(s) ==
    IF Len(s) = 0 THEN ""
    ELSE IF Len(s) = 1 THEN UpperChar(s)
    ELSE LET h == Len(s) \div 2
         IN  Upper(SubSeq(s, 1, h)) \o Upper(SubSeq(s, h + 1, Len(s)))

-----------------------------------------------------------------------------
(* src/models.py: AirlinePolicy and ScrapingResult.  scraped_at (the wall    *)
(* clock) is left out of the record and of the row.                          *)

AirlinePolicy(name, code) ==
    [ airline_name |-> name,
      airline_code |-> code,
      allows_full_name_change |-> None,
      allows_name_correction |-> None,
      cost_name_change_domestic_cop |-> None,
      cost_name_change_intl_cop |-> None,
      cost_name_change_usd |-> None,
      allows_transfer_to_third_party |-> None,
      transfer_process_description |-> None,
      allows_cancellation |-> None,
      cancellation_cost_cop |-> None,
      refund_percentage |-> None,
      time_restrictions |-> None,
      fare_type_differences |-> None,
      max_change_deadline |-> None,
      terms_url |-> None,
      support_phone |-> None,
      support_email |-> None,
      required_documentation |-> None,
      notable_exceptions |-> None,
      source_url |-> None,
      raw_html_hash |-> None,
      requires_manual_review |-> FALSE,
      manual_review_notes |-> None,
      confidence_score |-> Zero ]

\* a Python bool as SQLite stores it
BoolToInt(b) == IF b THEN 1 ELSE 0

OptBoolToInt(x) == IF IsNone(x) THEN None ELSE Some(BoolToInt(Val(x)))

\* a mutant of OptIntToBool: bool(row[column]) without the test for None
OptIntToBool_NoNoneTest(x) == Some(IF IsNone(x) THEN FALSE ELSE Val(x) # 0)

\* bool(row[column]) if row[column] is not None else None
OptIntToBool(x) == IF IsNone(x) THEN None ELSE Some(Val(x) # 0)

\* AirlinePolicy.to_db_tuple: the 25 columns (confidence_score is not one of them)
to_db_tuple(p) ==
    [ airline_name |-> p.airline_name,
      airline_code |-> p.airline_code,
      allows_full_name_change |-> OptBoolToInt(p.allows_full_name_change),
      allows_name_correction |-> OptBoolToInt(p.allows_name_correction),
      cost_name_change_domestic_cop |-> p.cost_name_change_domestic_cop,
      cost_name_change_intl_cop |-> p.cost_name_change_intl_cop,
      cost_name_change_usd |-> p.cost_name_change_usd,
      allows_transfer_to_third_party |-> OptBoolToInt(p.allows_transfer_to_third_party),
      transfer_process_description |-> p.transfer_process_description,
      allows_cancellation |-> OptBoolToInt(p.allows_cancellation),
      cancellation_cost_cop |-> p.cancellation_cost_cop,
      refund_percentage |-> p.refund_percentage,
      time_restrictions |-> p.time_restrictions,
      fare_type_differences |-> p.fare_type_differences,
      max_change_deadline |-> p.max_change_deadline,
      terms_url |-> p.terms_url,
      support_phone |-> p.support_phone,
      support_email |-> p.support_email,
      required_documentation |-> p.required_documentation,
      notable_exceptions |-> p.notable_exceptions,
      source_url |-> p.source_url,
      raw_html_hash |-> p.raw_html_hash,
      requires_manual_review |-> BoolToInt(p.requires_manual_review),
      manual_review_notes |-> p.manual_review_notes ]

\* DatabaseManager._row_to_policy
row_to_policy(row) ==
    [ airline_name |-> row.airline_name,
      airline_code |-> row.airline_code,
      allows_full_name_change |-> OptIntToBool(row.allows_full_name_change),
      allows_name_correction |-> OptIntToBool(row.allows_name_correction),
      cost_name_change_domestic_cop |-> row.cost_name_change_domestic_cop,
      cost_name_change_intl_cop |-> row.cost_name_change_intl_cop,
      cost_name_change_usd |-> row.cost_name_change_usd,
      allows_transfer_to_third_party |-> OptIntToBool(row.allows_transfer_to_third_party),
      transfer_process_description |-> row.transfer_process_description,
      allows_cancellation |-> OptIntToBool(row.allows_cancellation),
      cancellation_cost_cop |-> row.cancellation_cost_cop,
      refund_percentage |-> row.refund_percentage,
      time_restrictions |-> row.time_restrictions,
      fare_type_differences |-> row.fare_type_differences,
      max_change_deadline |-> row.max_change_deadline,
      terms_url |-> row.terms_url,
      support_phone |-> row.support_phone,
      support_email |-> row.support_email,
      required_documentation |-> row.required_documentation,
      notable_exceptions |-> row.notable_exceptions,
      source_url |-> row.source_url,
      raw_html_hash |-> row.raw_html_hash,
      requires_manual_review |-> (row.requires_manual_review # 0),
      manual_review_notes |-> row.manual_review_notes,
      confidence_score |-> Zero ]

\* AirlinePolicy.get_missing_fields: the critical fields that are None, in order
get_missing_fields(p) ==
    (IF IsNone(p.allows_full_name_change) THEN <<"allows_full_name_change">> ELSE <<>>)
    \o (IF IsNone(p.allows_name_correction) THEN <<"allows_name_correction">> ELSE <<>>)
    \o (IF IsNone(p.allows_transfer_to_third_party) THEN <<"allows_transfer_to_third_party">> ELSE <<>>)
    \o (IF IsNone(p.cost_name_change_domestic_cop) THEN <<"cost_name_change_domestic_cop">> ELSE <<>>)

ScrapingResult(name, success, policy, error_message) ==
    [airline_name |-> name, success |-> success, policy |-> policy, error_message |-> error_message]

-----------------------------------------------------------------------------
(* src/database.py: the airline_policies table is the set of its rows.  A    *)
(* storage error (sqlite3.Error) is the argument ok = FALSE of an operation. *)

RowsOf(tbl, code) == {r \in tbl : r.airline_code = code}

DbReturn(tbl, ret) == [table |-> tbl, ret |-> ret]

\* a mutant of insert_policy: OR REPLACE replaces every row of the table
insert_policy_ReplaceAll(tbl, p, ok) ==
    IF ok THEN DbReturn({to_db_tuple(p)}, TRUE) ELSE DbReturn(tbl, FALSE)

\* a mutant of insert_policy: the row that is there keeps its domestic cost
insert_policy_FieldMix(tbl, p, ok) ==
    IF ~ok THEN DbReturn(tbl, FALSE)
    ELSE IF RowsOf(tbl, p.airline_code) = {} THEN DbReturn(tbl \cup {to_db_tuple(p)}, TRUE)
    ELSE LET old == CHOOSE r \in RowsOf(tbl, p.airline_code) : TRUE
         IN  DbReturn((tbl \ RowsOf(tbl, p.airline_code))
                        \cup {[to_db_tuple(p) EXCEPT !.cost_name_change_domestic_cop =
                                                        old.cost_name_change_domestic_cop]},
                      TRUE)

\* a mutant of insert_policy: airline_code is not UNIQUE, nothing is replaced
insert_policy_NoUnique(tbl, p, ok) ==
    IF ok THEN DbReturn(tbl \cup {to_db_tuple(p)}, TRUE) ELSE DbReturn(tbl, FALSE)

\* DatabaseManager.insert_policy: INSERT OR REPLACE under UNIQUE(airline_code)
insert_policy(tbl, p, ok) ==
    IF ok
    THEN DbReturn((tbl \ RowsOf(tbl, p.airline_code)) \cup {to_db_tuple(p)}, TRUE)
    ELSE DbReturn(tbl, FALSE)

\* DatabaseManager.get_policy_by_code: the row of the code, or None
get_policy_by_code(tbl, code, ok) ==
    IF ok /\ RowsOf(tbl, code) # {}
    THEN Some(row_to_policy(CHOOSE r \in RowsOf(tbl, code) : TRUE))
    ELSE None

\* DatabaseManager.delete_policy
delete_policy(tbl, code, ok) ==
    IF ok THEN DbReturn(tbl \ RowsOf(tbl, code), TRUE) ELSE DbReturn(tbl, FALSE)

\* DatabaseManager.clear_all_policies
clear_all_policies(tbl, ok) ==
    IF ok THEN DbReturn({}, TRUE) ELSE DbReturn(tbl, FALSE)

\* the byte order of the characters of the airline names (BINARY collation)
NameOrder == " ABCDEFGHIJKLMNOPQRSTUVWXYZabcdefghijklmnopqrstuvwxyz"

CharRank(c) ==
    IF \E i \in 1..Len(NameOrder) : CharAt(NameOrder, i) = c
    THEN CHOOSE i \in 1..Len(NameOrder) : CharAt(NameOrder, i) = c
    ELSE Len(NameOrder) + 1

\* a <= b in the order of ORDER BY airline_name
RECURSIVE NameLeq(_, _)
NameLeq(a, b) ==
    IF a = b \/ Len(a) = 0 THEN TRUE
    ELSE IF Len(b) = 0 THEN FALSE
    ELSE IF CharRank(CharAt(a, 1)) # CharRank(CharAt(b, 1))
    THEN CharRank(CharAt(a, 1)) < CharRank(CharAt(b, 1))
    ELSE NameLeq(SubSeq(a, 2, Len(a)), SubSeq(b, 2, Len(b)))

\* the rows of the set in the order of ORDER BY airline_name
RECURSIVE OrderByName(_)
OrderByName(rows) ==
    IF rows = {} THEN <<>>
    ELSE LET first == CHOOSE r \in rows : \A q \in rows : NameLeq(r.airline_name, q.airline_name)
         IN  <<first>> \o OrderByName(rows \ {first})

\* the orders ORDER BY scraped_at DESC can deliver the rows in: scraped_at is
\* not part of the rows kept here, so every order is possible
RECURSIVE Orderings(_)
Orderings(rows) ==
    IF rows = {} THEN {<<>>}
    ELSE UNION { {<<r>> \o rest : rest \in Orderings(rows \ {r})} : r \in rows }

\* the loop "for row in rows: policies.append(self._row_to_policy(row))"
PoliciesOf(ordered_rows) == [i \in 1..Len(ordered_rows) |-> row_to_policy(ordered_rows[i])]

\* DatabaseManager.get_all_policies, on the rows as the query delivers them
get_all_policies(ordered_rows, ok) == IF ok THEN PoliciesOf(ordered_rows) ELSE <<>>

\* WHERE requires_manual_review = 1
SqlRequiresReview(row) == row.requires_manual_review = 1

\* DatabaseManager.get_policies_requiring_review
get_policies_requiring_review(ordered_rows, ok) ==
    IF ok THEN PoliciesOf(SelectSeq(ordered_rows, SqlRequiresReview)) ELSE <<>>

\* WHERE allows_transfer_to_third_party = 1 OR allows_full_name_change = 1
SqlViable(row) ==
    row.allows_transfer_to_third_party = Some(1) \/ row.allows_full_name_change = Some(1)

\* DatabaseManager.get_viable_airlines
get_viable_airlines(tbl, ok) ==
    IF ok THEN PoliciesOf(OrderByName({r \in tbl : SqlViable(r)})) ELSE <<>>

\* the keys each of the six queries of get_statistics writes, in their order
StatQueries ==
    << {"total_airlines"}, {"allow_transfer"}, {"allow_name_change"},
       {"avg_cost_domestic_cop"}, {"min_cost_cop", "max_cost_cop"}, {"requires_review"} >>

\* the values of cost_name_change_domestic_cop that are NOT NULL
DomesticCosts(tbl) ==
    { Val(r.cost_name_change_domestic_cop) :
        r \in {x \in tbl : ~IsNone(x.cost_name_change_domestic_cop)} }

RECURSIVE SumOfCosts(_)
SumOfCosts(rows) ==
    IF rows = {} THEN 0
    ELSE LET r == CHOOSE x \in rows : TRUE
         IN  Val(r.cost_name_change_domestic_cop) + SumOfCosts(rows \ {r})

\* int(result) if result else None, result the AVG of the costs that are NOT NULL
AvgCost(tbl) ==
    LET rows == {r \in tbl : ~IsNone(r.cost_name_change_domestic_cop)}
    IN  IF rows = {} \/ SumOfCosts(rows) = 0 THEN None
        ELSE Some(SumOfCosts(rows) \div Cardinality(rows))

\* the value get_statistics stores under a key; a None, or Some value
StatValue(tbl, key) ==
    CASE key = "total_airlines" -> Some(Cardinality(tbl))
      [] key = "allow_transfer" ->
            Some(Cardinality({r \in tbl : r.allows_transfer_to_third_party = Some(1)}))
      [] key = "allow_name_change" ->
            Some(Cardinality({r \in tbl : r.allows_full_name_change = Some(1)}))
      [] key = "avg_cost_domestic_cop" -> AvgCost(tbl)
      [] key = "min_cost_cop" ->
            IF DomesticCosts(tbl) = {} THEN None
            ELSE Some(CHOOSE c \in DomesticCosts(tbl) : \A d \in DomesticCosts(tbl) : c <= d)
      [] key = "max_cost_cop" ->
            IF DomesticCosts(tbl) = {} THEN None
            ELSE Some(CHOOSE c \in DomesticCosts(tbl) : \A d \in DomesticCosts(tbl) : d <= c)
      [] OTHER -> Some(Cardinality({r \in tbl : SqlRequiresReview(r)}))

\* DatabaseManager.get_statistics: the dict as its set of <<key, value>>.
\* failed_query is 0 when no query raises sqlite3.Error, and otherwise the
\* query that raises it (1 also when the connection cannot be opened): the
\* except clause logs, and the keys written before it are returned
get_statistics(tbl, failed_query) ==
    LET answered == IF failed_query = 0 THEN Len(StatQueries) ELSE failed_query - 1
    IN  { <<key, StatValue(tbl, key)>> : key \in UNION {StatQueries[q] : q \in 1..answered} }

\* DatabaseManager.export_to_dict_list; to_dict keeps every field of a policy
export_to_dict_list(ordered_rows, ok) == get_all_policies(ordered_rows, ok)

\* a mutant of is_transfer_viable: "is not False" in place of "is True"
is_transfer_viable_NotFalse(p) ==
    p.allows_full_name_change # Some(FALSE) \/ p.allows_transfer_to_third_party # Some(FALSE)

\* AirlinePolicy.is_transfer_viable
is_transfer_viable(p) ==
    p.allows_full_name_change = Some(TRUE) \/ p.allows_transfer_to_third_party = Some(TRUE)

\* PolicyAnalyzer.load_data: the DataFrame, one row per policy, None where a
\* field is None
load_data(policies) == policies

\* (df[column] == True) for one row of the DataFrame
CellIsTrue(cell) == ~IsNone(cell) /\ Val(cell) = TRUE

\* viable_mask of generate_viability_report, for one row of the DataFrame
viable_mask(df_row) ==
    CellIsTrue(df_row.allows_transfer_to_third_party) \/ CellIsTrue(df_row.allows_full_name_change)

-----------------------------------------------------------------------------
(* src/utils.py: validators and the content hash *)

\* validate_cop_amount
validate_cop_amount(amount) ==
    IF IsNone(amount) THEN TRUE ELSE 0 <= Val(amount) /\ Val(amount) <= 10000000

\* validate_usd_amount
validate_usd_amount(amount) ==
    IF IsNone(amount) THEN TRUE ELSE 0 <= Val(amount) /\ Val(amount) <= 5000

\* a mutant of validate_percentage: the lower limit is not tested
validate_percentage_NoLowerBound(percentage) ==
    IF IsNone(percentage) THEN TRUE ELSE Val(percentage) <= 100

\* validate_percentage
validate_percentage(percentage) ==
    IF IsNone(percentage) THEN TRUE ELSE 0 <= Val(percentage) /\ Val(percentage) <= 100

\* the characters the character class of the URL pattern leaves out (the
\* backquote, which no string of this module can hold, is not listed)
UrlExcluded == Whitespace \cup {"<", ">", "\"", "{", "}", "|", "\\", "^", "[", "]"}

\* re.match of the URL pattern: http or https, ://, one or more allowed
\* characters, and $, which also matches before a final newline
UrlMatches(u) ==
    \E k \in {4, 5} :
        \E last \in {Len(u), Len(u) - 1} :
            /\ k + 3 < last
            /\ SubSeq(u, 1, k) = (IF k = 4 THEN "http" ELSE "https")
            /\ SubSeq(u, k + 1, k + 3) = "://"
            /\ \A i \in (k + 4)..last : CharAt(u, i) \notin UrlExcluded
            /\ last = Len(u) - 1 => CharAt(u, Len(u)) = "\n"

\* validate_url
validate_url(url) ==
    IF IsNone(url) \/ Val(url) = "" THEN TRUE ELSE UrlMatches(Val(url))

\* compute_html_hash: the MD5 digest, taken to be free of collisions
compute_html_hash(html_content) ==
    IF html_content = "" THEN "" ELSE "md5:" \o html_content

-----------------------------------------------------------------------------
(* src/scrapers/base_scraper.py: validation and confidence score *)

\* validate_extracted_data
validate_extracted_data(p) ==
    LET critical_missing == get_missing_fields(p)
        errors ==
            (IF ~validate_cop_amount(p.cost_name_change_domestic_cop)
             THEN <<"Costo doméstico COP fuera de rango">> ELSE <<>>)
            \o (IF ~validate_usd_amount(p.cost_name_change_usd)
                THEN <<"Costo USD fuera de rango">> ELSE <<>>)
            \o (IF ~validate_percentage(p.refund_percentage)
                THEN <<"Porcentaje de reembolso inválido">> ELSE <<>>)
            \o (IF ~validate_url(p.terms_url) THEN <<"URL de términos inválida">> ELSE <<>>)
            \o (IF ~validate_url(p.source_url) THEN <<"URL de origen inválida">> ELSE <<>>)
            \o (IF Len(critical_missing) > 3
                THEN <<"Faltan campos críticos: " \o JoinWith(", ", critical_missing)>>
                ELSE <<>>)
    IN  [is_valid |-> Len(errors) = 0, errors |-> errors]

\* the number of fields of the list that are not None
Filled(fields) == Cardinality({i \in 1..Len(fields) : ~IsNone(fields[i])})

\* round(filled / total, 2), in hundredths
RoundHundredths(filled, total) == (200 * filled + total) \div (2 * total)

\* a mutant of calculate_confidence_score: every field weighs 1
calculate_confidence_score_EqualWeights(p) ==
    LET fields == << p.allows_full_name_change, p.allows_name_correction,
                     p.allows_transfer_to_third_party, p.cost_name_change_domestic_cop,
                     p.allows_cancellation, p.cancellation_cost_cop,
                     p.refund_percentage, p.time_restrictions >>
    IN  Frac(RoundHundredths(Filled(fields), Len(fields)), 100)

\* a mutant of calculate_confidence_score: the critical fields that are None
\* are the ones counted
calculate_confidence_score_CountsMissing(p) ==
    LET important == << p.allows_cancellation, p.cancellation_cost_cop,
                        p.refund_percentage, p.time_restrictions >>
    IN  Frac(RoundHundredths(2 * Len(get_missing_fields(p)) + Filled(important), 12), 100)

\* calculate_confidence_score: critical fields weigh 2, important fields 1
calculate_confidence_score(p) ==
    LET critical == << p.allows_full_name_change, p.allows_name_correction,
                       p.allows_transfer_to_third_party, p.cost_name_change_domestic_cop >>
        important == << p.allows_cancellation, p.cancellation_cost_cop,
                        p.refund_percentage, p.time_restrictions >>
        total_fields == 2 * Len(critical) + Len(important)
        filled_fields == 2 * Filled(critical) + Filled(important)
    IN  Frac(RoundHundredths(filled_fields, total_fields), 100)

-----------------------------------------------------------------------------
(* The pages a site may answer with, and what each scraper's extract_data    *)
(* reads from them.  The extraction itself (sentence windows, amounts,       *)
(* booleans) is given as a table: a page either makes it raise or fixes the  *)
(* fields it fills.                                                          *)

PageFull == "<html>se permite el cambio de nombre por $150.000 COP</html>"

PageCostly == "<html>cambio de nombre: $99.999.999 COP</html>"

PageBare == "<html>bienvenido</html>"

PageBroken == "<html"

ResponseBodies == {"", PageFull, PageCostly, PageBare, PageBroken}

ExtractionError == "extract_data failed"

\* extract_data of the scraper sc on the page html: [raised, policy]
extract_data(sc, html_content) ==
    LET base == [AirlinePolicy(sc.airline_name, sc.airline_code) EXCEPT
                    !.source_url = Some(sc.policies_url),
                    !.raw_html_hash = Some(compute_html_hash(html_content)),
                    !.terms_url = Some(sc.policies_url)]
    IN  CASE html_content = PageBroken -> [raised |-> TRUE, policy |-> None]
          [] html_content = PageFull ->
                [raised |-> FALSE, policy |-> Some([base EXCEPT
                    !.allows_full_name_change = Some(TRUE),
                    !.allows_name_correction = Some(FALSE),
                    !.cost_name_change_domestic_cop = Some(150000),
                    !.allows_transfer_to_third_party = Some(TRUE),
                    !.transfer_process_description = Some("se permite el cambio de nombre por $150.000 COP"),
                    !.allows_cancellation = Some(FALSE),
                    !.refund_percentage = Some(80)])]
          [] html_content = PageCostly ->
                [raised |-> FALSE, policy |-> Some([base EXCEPT
                    !.allows_full_name_change = None,
                    !.allows_name_correction = Some(FALSE),
                    !.cost_name_change_domestic_cop = Some(99999999),
                    !.allows_transfer_to_third_party = None,
                    !.transfer_process_description = Some("cambio de nombre: $99.999.999 COP")])]
          [] OTHER -> [raised |-> FALSE, policy |-> Some(base)]

-----------------------------------------------------------------------------
(* src/scrapers/base_scraper.py: the pieces of scrape() and fetch_page() *)

\* not self.html_content
HtmlMissing(h) == IsNone(h) \/ Val(h) = ""

NoContentError == "No se pudo obtener contenido HTML"

\* a mutant of save_snapshot: nothing is written
save_snapshot_Skipped(html_content, writable) == "none"

\* save_snapshot: returns at once without content; otherwise writes the file,
\* or logs the exception of a write that failed.  What became of the file:
\* "none", "written" or "failed"
save_snapshot(html_content, writable) ==
    IF HtmlMissing(html_content) THEN "none"
    ELSE IF writable THEN "written"
    ELSE "failed"

\* a mutant of FailureResult: the error message is left out
FailureResult_NoMessage(name, msg) == ScrapingResult(name, FALSE, None, None)

\* the ScrapingResult of the except branch of scrape()
FailureResult(name, msg) == ScrapingResult(name, FALSE, None, Some(msg))

\* the ScrapingResult at the end of the try block of scrape()
SuccessResult(name, p) == ScrapingResult(name, TRUE, Some(p), None)

\* steps 5 and 6 of scrape(): the review flag from the validation, then the score
ValidateAndScore(p) ==
    LET validation_result == validate_extracted_data(p)
        flagged == IF ~validation_result.is_valid
                   THEN [p EXCEPT !.requires_manual_review = TRUE,
                                  !.manual_review_notes = Some(JoinWith("; ", validation_result.errors))]
                   ELSE p
    IN  [flagged EXCEPT !.confidence_score = calculate_confidence_score(flagged)]

\* detect_policy_changes: reads the row the store holds now
detect_policy_changes(tbl, code, new_policy, ok) ==
    LET old_policy == get_policy_by_code(tbl, code, ok)
    IN  IF IsNone(old_policy) THEN TRUE
        ELSE Val(old_policy).raw_html_hash # new_policy.raw_html_hash

\* a mutant of BackoffWait: the same wait before every retry
BackoffWait_Constant(attempt_no) == RETRY_BACKOFF

\* wait_time = RETRY_BACKOFF ** attempt
BackoffWait(attempt_no) == RETRY_BACKOFF ^ attempt_no

\* attempt == MAX_RETRIES - 1, the test of the except branch of fetch_page
RetriesExhausted(attempt_no) == attempt_no = MAX_RETRIES - 1

\* range(MAX_RETRIES) has no value after attempt_no: the loop ends
LoopEnds(attempt_no) == attempt_no + 1 >= MAX_RETRIES

-----------------------------------------------------------------------------
(* main.py: scrape_airline's return values *)

AirlineResult(airline, success, message) ==
    [airline |-> airline, success |-> success, message |-> message]

\* what a call hands to its caller: a value, or an exception that escapes it
Returns(v) == [raised |-> FALSE, value |-> Some(v)]

Raises == [raised |-> TRUE, value |-> None]

NotFoundMessage == "Aerolínea no encontrada"

ConstructorError == "unable to open database file"

\* a mutant of ScraperFailed: scrape_airline has no except clause
ScraperFailed_NoExcept(code, msg) == Raises

\* the except clause of scrape_airline
ScraperFailed(code, msg) == Returns(AirlineResult(code, FALSE, Some(msg)))

\* the dict scrape_airline builds from the ScrapingResult of scraper.scrape()
ScraperReturned(r) ==
    Returns(AirlineResult(r.airline_name, r.success,
                          IF ~r.success THEN r.error_message ELSE Some("OK")))

-----------------------------------------------------------------------------
(* One record handed to the functions that take a record: the confidence     *)
(* score, the validation, the conversion to a row and back.                  *)

VARIABLES
    record,         \* the AirlinePolicy the functions are applied to
    recOut,         \* what the functions returned for it
    prevOut,        \* what they returned before a field of the record was filled
    rpc             \* "off", "call", "done" or "filled"

recVars == <<record, recOut, prevOut, rpc>>

TriState == {None, Some(FALSE), Some(TRUE)}

ValidUrl == "https://www.avianca.com/co/es/"

\* records over every combination of null and non-null critical and important fields
CoverageRecords ==
    { [AirlinePolicy("Avianca", "AV") EXCEPT
          !.allows_full_name_change = a,
          !.allows_name_correction = b,
          !.allows_transfer_to_third_party = c,
          !.allows_cancellation = e,
          !.cost_name_change_domestic_cop = d,
          !.cancellation_cost_cop = f[1],
          !.refund_percentage = f[2],
          !.time_restrictions = f[3],
          !.terms_url = Some(ValidUrl),
          !.source_url = Some(ValidUrl)] :
        a \in TriState, b \in TriState, c \in TriState, e \in TriState,
        d \in {None, Some(0), Some(150000)},
        f \in {None, Some(0)} \X {None, Some(0)} \X {None, Some("24 horas antes del vuelo")} }

\* records at and around the limits validate_extracted_data tests
ValidationRecords ==
    { [AirlinePolicy("Avianca", "AV") EXCEPT
          !.allows_full_name_change = m[1],
          !.allows_name_correction = m[2],
          !.allows_transfer_to_third_party = m[3],
          !.cost_name_change_domestic_cop = d,
          !.cost_name_change_usd = u,
          !.refund_percentage = g,
          !.terms_url = t,
          !.source_url = w] :
        m \in {None, Some(TRUE)} \X {None, Some(FALSE)} \X {None, Some(TRUE)},
        d \in {None, Some(0), Some(10000000), Some(10000001), Some(-1)},
        u \in {None, Some(5000), Some(5001), Some(-1)},
        g \in {None, Some(100), Some(101), Some(-1)},
        t \in {None, Some(""), Some(ValidUrl), Some("http://a.co\n"), Some("ftp://avianca.com"),
               Some("http://avianca.com/a b"), Some("https://")},
        w \in {Some(ValidUrl), Some("www.avianca.com")} }

\* records with every optional number null or 0
RoundTripRecords ==
    { [AirlinePolicy("LATAM", "LA") EXCEPT
          !.cost_name_change_domestic_cop = n[1],
          !.cost_name_change_intl_cop = n[2],
          !.cost_name_change_usd = n[3],
          !.cancellation_cost_cop = n[4],
          !.refund_percentage = n[5],
          !.allows_cancellation = e] :
        n \in {None, Some(0)} \X {None, Some(0)} \X {None, Some(0)} \X {None, Some(0)}
                 \X {None, Some(0)},
        e \in TriState }

Records == CoverageRecords \cup ValidationRecords \cup RoundTripRecords

\* the critical and important fields of calculate_confidence_score
ScoredFields ==
    { "allows_full_name_change", "allows_name_correction", "allows_transfer_to_third_party",
      "cost_name_change_domestic_cop", "allows_cancellation", "cancellation_cost_cop",
      "refund_percentage", "time_restrictions" }

\* a non-null value for the field
FilledValue(field) ==
    IF field \in {"allows_full_name_change", "allows_name_correction",
                  "allows_transfer_to_third_party", "allows_cancellation"}
    THEN Some(FALSE)
    ELSE IF field = "time_restrictions" THEN Some("24 horas antes del vuelo")
    ELSE Some(0)

\* what the functions of one record return for r
RecordOutputs(r) ==
    LET stored == insert_policy({}, r, TRUE).table
        df == load_data(get_all_policies(OrderByName(stored), TRUE))
    IN  [ score |-> calculate_confidence_score(r),
          validation |-> validate_extracted_data(r),
          fetched |-> get_policy_by_code(stored, r.airline_code, TRUE),
          sql_viable |-> get_viable_airlines(stored, TRUE) # <<>>,
          is_viable |-> is_transfer_viable(r),
          mask_viable |-> viable_mask(df[1]) ]

RecIdle ==
    /\ record = None
    /\ recOut = None
    /\ prevOut = None
    /\ rpc = "off"

-----------------------------------------------------------------------------
(* src/analyzer.py and src/models.py: the viability report *)

\* VIABILITY_THRESHOLDS of src/config.py
market_coverage_minimum == 40

market_coverage_ideal == 60

max_acceptable_cost_cop == 200000

\* Series.sum() of a column of True / False / None: the number of True
SumTrue(df, column) == Cardinality({i \in 1..Len(df) : CellIsTrue(df[i][column])})

\* PolicyAnalyzer.generate_statistics on the policies load_data got from the
\* store: the counts the report reads.  With no policies load_data returns
\* before it sets self.df, and "self.df.empty" raises on the None
generate_statistics(policies) ==
    IF Len(policies) = 0 THEN Raises
    ELSE LET df == load_data(policies)
         IN  Returns([ total_airlines |-> Len(df),
                       allow_transfer |-> SumTrue(df, "allows_transfer_to_third_party"),
                       allow_name_change |-> SumTrue(df, "allows_full_name_change"),
                       allow_correction_only |-> SumTrue(df, "allows_name_correction"),
                       requires_review |->
                           Cardinality({i \in 1..Len(df) : df[i].requires_manual_review}) ])

\* a mutant of ReasonableCost: < in place of <=
ReasonableCost_Strict(cell) == ~IsNone(cell) /\ Val(cell) < max_acceptable_cost_cop

\* df[column] <= max_acceptable_cost_cop for one row: False where the cost is missing
ReasonableCost(cell) == ~IsNone(cell) /\ Val(cell) <= max_acceptable_cost_cop

\* the values round(x, decimals) can return for the exact x = f.num / f.den, in
\* units of 1/scale: the nearest one, and either neighbour when x lies half
\* way, where the float carrying x decides
Rounded(f, scale) ==
    { h \in 0..(scale * (f.num \div f.den + 1)) :
        /\ 2 * (scale * f.num - h * f.den) <= f.den
        /\ 2 * (h * f.den - scale * f.num) <= f.den }

\* transfer_score + cost_score + data_score of _calculate_overall_viability_score
OverallScoreSum(df) ==
    LET total == Len(df)
        transfer == SumTrue(df, "allows_transfer_to_third_party")
        reasonable_costs == Cardinality({i \in 1..total :
                                ReasonableCost(df[i].cost_name_change_domestic_cop)})
        review == Cardinality({i \in 1..total : df[i].requires_manual_review})
    IN  Frac(5 * transfer + 3 * reasonable_costs + 2 * (total - review), 10 * total)

\* PolicyAnalyzer._calculate_overall_viability_score: the values it can return,
\* in hundredths
calculate_overall_viability_score(df) ==
    IF Len(df) = 0 THEN {0} ELSE Rounded(OverallScoreSum(df), 100)

ConclusionViable == "El marketplace de reventa de boletos ES VIABLE en Colombia."

ConclusionRestricted ==
    "El marketplace de reventa de boletos ES VIABLE CON RESTRICCIONES en Colombia."

ConclusionNotViable ==
    "El marketplace de reventa de boletos tradicional NO ES VIABLE en Colombia."

\* PolicyAnalyzer._generate_conclusion: the sentence the text opens with
generate_conclusion(market_coverage) ==
    IF FracLeq(Frac(market_coverage_ideal, 1), market_coverage) THEN ConclusionViable
    ELSE IF FracLeq(Frac(market_coverage_minimum, 1), market_coverage) THEN ConclusionRestricted
    ELSE ConclusionNotViable

RecommendationViable == "RECOMENDACIÓN: Proceder con desarrollo de MVP."

RecommendationRestricted == "RECOMENDACIÓN: Proceder con piloto limitado."

RecommendationNotViable == "RECOMENDACIÓN: NO proceder con marketplace tradicional."

\* a mutant of generate_recommendation: > in place of >= at the ideal coverage
generate_recommendation_Strict(market_coverage) ==
    IF ~FracLeq(market_coverage, Frac(market_coverage_ideal, 1)) THEN RecommendationViable
    ELSE IF FracLeq(Frac(market_coverage_minimum, 1), market_coverage)
    THEN RecommendationRestricted
    ELSE RecommendationNotViable

\* PolicyAnalyzer._generate_recommendation: the sentence the text opens with
generate_recommendation(market_coverage) ==
    IF FracLeq(Frac(market_coverage_ideal, 1), market_coverage) THEN RecommendationViable
    ELSE IF FracLeq(Frac(market_coverage_minimum, 1), market_coverage)
    THEN RecommendationRestricted
    ELSE RecommendationNotViable

\* ViabilityReport.get_viability_status, on the coverage in tenths of a percent;
\* the words of each status, without the sign that precedes them
get_viability_status(report) ==
    IF report.market_coverage_percentage >= 600 THEN "VIABLE"
    ELSE IF report.market_coverage_percentage >= 400 THEN "VIABLE CON RESTRICCIONES"
    ELSE "NO VIABLE"

\* ViabilityReport.is_viable
is_viable(report) == report.market_coverage_percentage >= 400

\* ReportGenerator._generate_viability_conclusion: the sign before the status,
\* by its name (check mark, warning sign, cross)
status_icon(report) ==
    IF is_viable(report) THEN "check mark"
    ELSE IF report.market_coverage_percentage >= 400 THEN "warning sign"
    ELSE "cross"

\* AirlinePolicy.get_viability_score, in tenths: the permission, the domestic
\* cost and the description each add their weight
get_viability_score(p) ==
    LET permission ==
            IF p.allows_transfer_to_third_party = Some(TRUE) THEN 5
            ELSE IF p.allows_full_name_change = Some(TRUE) THEN 3
            ELSE IF p.allows_name_correction = Some(TRUE) THEN 1
            ELSE 0
        cost == p.cost_name_change_domestic_cop
        cost_weight ==
            IF IsNone(cost) \/ Val(cost) = 0 THEN 0
            ELSE IF Val(cost) < 50000 THEN 3
            ELSE IF Val(cost) < 100000 THEN 2
            ELSE IF Val(cost) < 200000 THEN 1
            ELSE 0
        description == p.transfer_process_description
        process == IF IsNone(description) \/ Val(description) = "" THEN 0 ELSE 2
        score == permission + cost_weight + process
    IN  Frac(IF score < 10 THEN score ELSE 10, 10)

\* ReportGenerator._generate_airline_analysis: the status printed for one
\* policy, without the sign that precedes it
viability_status(policy) ==
    IF FracLeq(Frac(1, 2), get_viability_score(policy)) THEN "VIABLE" ELSE "NO VIABLE"

\* the airline_name column of the rows of df the mask selects (or leaves out)
NamesWhere(df, selected) ==
    LET Keep(df_row) == viable_mask(df_row) = selected
        kept == SelectSeq(df, Keep)
    IN  [i \in 1..Len(kept) |-> kept[i].airline_name]

\* a mutant of market_coverage: the share of the airlines that allow transfer
market_coverage_TransferOnly(df) ==
    IF Len(df) > 0
    THEN Frac(100 * SumTrue(df, "allows_transfer_to_third_party"), Len(df))
    ELSE Zero

\* market_coverage of generate_viability_report, in percent
market_coverage(df) ==
    IF Len(df) > 0 THEN Frac(100 * Len(NamesWhere(df, TRUE)), Len(df)) ELSE Zero

\* PolicyAnalyzer.generate_viability_report on the policies load_data got from
\* the store, with overall_score one of the values the score can take.  With
\* no policies load_data leaves self.df None and generate_statistics raises.
generate_viability_report(policies, overall_score) ==
    IF generate_statistics(policies).raised THEN Raises
    ELSE LET df == load_data(policies)
             coverage == market_coverage(df)
             stats == Val(generate_statistics(policies).value)
         IN  Returns([ total_airlines |-> stats.total_airlines,
                       scraped_successfully |-> stats.total_airlines - stats.requires_review,
                       allow_transfer |-> stats.allow_transfer,
                       allow_name_change |-> stats.allow_name_change,
                       allow_name_correction_only |-> stats.allow_correction_only,
                       viable_airlines |-> NamesWhere(df, TRUE),
                       non_viable_airlines |-> NamesWhere(df, FALSE),
                       market_coverage_percentage |->
                           CHOOSE h \in Rounded(coverage, 10) : TRUE,
                       overall_viability_score |-> overall_score,
                       conclusion |-> generate_conclusion(coverage),
                       recommendation |-> generate_recommendation(coverage) ])

VARIABLES
    store,          \* the rows of airline_policies, in the order of scraped_at DESC
    report,         \* what generate_viability_report returned
    reportAgain,    \* what it returned the second time, the store unchanged
    repc            \* "off", "call", "done" or "again"

repVars == <<store, report, reportAgain, repc>>

\* the kinds of record a store is filled with: what the report reads of a record
\* is its three permissions, its domestic cost and its review flag
RecordKinds ==
    << [transfer |-> Some(TRUE), full |-> Some(FALSE), correction |-> Some(TRUE),
        cost |-> Some(150000), review |-> FALSE],
       [transfer |-> Some(FALSE), full |-> Some(TRUE), correction |-> Some(FALSE),
        cost |-> Some(250000), review |-> FALSE],
       [transfer |-> None, full |-> None, correction |-> None,
        cost |-> None, review |-> TRUE],
       [transfer |-> Some(FALSE), full |-> Some(FALSE), correction |-> Some(TRUE),
        cost |-> Some(200000), review |-> FALSE],
       [transfer |-> Some(TRUE), full |-> Some(TRUE), correction |-> None,
        cost |-> None, review |-> TRUE] >>

\* the row of the i-th configured airline with the fields of the kind
RowOfKind(i, kind) ==
    to_db_tuple([AirlinePolicy(AIRLINES_CONFIG[i].nombre, AIRLINES_CONFIG[i].codigo) EXCEPT
                    !.allows_transfer_to_third_party = kind.transfer,
                    !.allows_full_name_change = kind.full,
                    !.allows_name_correction = kind.correction,
                    !.cost_name_change_domestic_cop = kind.cost,
                    !.requires_manual_review = kind.review])

\* the stores of up to one row per configured airline; the kinds are taken in
\* a fixed order, which the counts of the report do not depend on
Stores ==
    UNION { { [i \in 1..n |-> RowOfKind(i, RecordKinds[ks[i]])] :
                ks \in {f \in [1..n -> 1..Len(RecordKinds)] :
                            \A i \in 1..(n - 1) : f[i] <= f[i + 1]} } :
            n \in 0..Len(AIRLINES_CONFIG) }

RepIdle ==
    /\ store = <<>>
    /\ report = None
    /\ reportAgain = None
    /\ repc = "off"

-----------------------------------------------------------------------------
(* One text handed to the amount extractors, and two scrape runs of one      *)
(* airline that share the store.                                             *)

VARIABLES
    amountText,     \* the text extract_cop_amount and extract_usd_amount are given
    copAmount,      \* what extract_cop_amount returned for it
    usdAmount,      \* what extract_usd_amount returned for it
    apc             \* "off", "cop", "usd" or "done"

amountVars == <<amountText, copAmount, usdAmount, apc>>

AmountIdle ==
    /\ amountText = ""
    /\ copAmount = None
    /\ usdAmount = None
    /\ apc = "off"

VARIABLES
    racePc,         \* of each run: "off", "extract", "insert", "detect" or "done"
    racePage,       \* the page each run fetched
    racePolicy,     \* the record each run extracted from its page
    raceReturn,     \* what insert_policy returned to each run
    raceChanged,    \* what detect_policy_changes returned to each run
    commits         \* the runs whose upsert was committed, in the order of the commits

raceVars == <<racePc, racePage, racePolicy, raceReturn, raceChanged, commits>>

\* the two invocations of the program
Runs == {1, 2}

RaceIdle ==
    /\ racePc = [r \in Runs |-> "off"]
    /\ racePage = [r \in Runs |-> None]
    /\ racePolicy = [r \in Runs |-> None]
    /\ raceReturn = [r \in Runs |-> None]
    /\ raceChanged = [r \in Runs |-> None]
    /\ commits = <<>>

sideVars == <<amountVars, raceVars>>

SideIdle == AmountIdle /\ RaceIdle

-----------------------------------------------------------------------------
(* The state of the program: the policies table, main.py's command in        *)
(* progress, and the scraper run in progress.                                *)

VARIABLES
    table,          \* the rows of airline_policies
    lastOp,         \* the last call made directly on the DatabaseManager
    cmd,            \* main.py: "idle", "scrape_all", "scrape_airline" or "done"
    arg,            \* the code handed to a lone scrape_airline command
    idx,            \* scrape_all: position of the loop in the configured list
    results,        \* scrape_all: the list of results built so far
    escaped,        \* an exception left the command
    scrapeLog,      \* the codes scrape_airline was called with, in call order
    pc,             \* position of the run inside scrape_airline and scrape()
    scraper,        \* the scraper instance of the run
    attempt,        \* fetch_page: the loop variable
    responses,      \* fetch_page: the outcome of each request made, in order
    waits,          \* fetch_page: the back-off waits slept, in order
    html,           \* self.html_content
    snapshot,       \* save_snapshot: "none", "written" or "failed"
    policy,         \* the policy extracted by the run
    insertReturn,   \* what insert_policy returned to scrape()
    changed,        \* what detect_policy_changes returned to scrape()
    result,         \* the ScrapingResult scrape() returns
    ret,            \* what scrape_airline hands to its caller
    tableAtStart    \* the table as it was when the run began

storeVars == <<table, lastOp>>

driverVars == <<cmd, arg, idx, results, escaped, scrapeLog>>

fetchVars == <<attempt, responses, waits, html>>

runVars == <<pc, scraper, fetchVars, snapshot, policy, insertReturn, changed, result, ret,
             tableAtStart>>

pipeVars == <<storeVars, driverVars, runVars>>

vars == <<boolVars, recVars, repVars, sideVars, pipeVars>>

\* the codes a lone scrape_airline command is given: exact, lower case, unknown
AirlineArgs == {"AV", "la", "XX"}

\* the pages extract_data turns into a policy
StorablePages == {PageFull, PageCostly, PageBare}

\* the policies a scraper of a configured airline can produce
ScrapedPolicies ==
    { ValidateAndScore(Val(extract_data(ScraperClass(c), h).policy)) :
        c \in ConfiguredCodes, h \in StorablePages }

BoolIdle ==
    /\ text = ""
    /\ keywords = <<>>
    /\ positive_matches = 0
    /\ negative_matches = 0
    /\ boolResult = None
    /\ bpc = "off"

RunIdle ==
    /\ pc = "idle"
    /\ scraper = None
    /\ attempt = 0
    /\ responses = <<>>
    /\ waits = <<>>
    /\ html = None
    /\ snapshot = "none"
    /\ policy = None
    /\ insertReturn = None
    /\ changed = None
    /\ result = None
    /\ ret = None
    /\ tableAtStart = {}

DriverIdle ==
    /\ cmd = "idle"
    /\ arg = None
    /\ idx = 0
    /\ results = <<>>
    /\ escaped = FALSE
    /\ scrapeLog = <<>>

\* a fresh database: _init_database has created an empty table
Init ==
    /\ BoolIdle
    /\ RecIdle
    /\ RepIdle
    /\ table = {}
    /\ lastOp = None
    /\ DriverIdle
    /\ RunIdle
    /\ SideIdle

-----------------------------------------------------------------------------
(* Calls made directly on the DatabaseManager *)

\* what a call returned, by the type of it: the bool of a write, the policies
\* of a read (the Optional of get_policy_by_code is the list of at most one),
\* the dict of get_statistics, or what a command logged or raised
Returned == [ret |-> FALSE, policies |-> <<>>, stats |-> {}, outcome |-> None]

\* the record of a call: failed tells that a sqlite3.Error was raised in it
ApiCall(op, code, p, before, returned, ok) ==
    Some([op |-> op, code |-> code, policy |-> p, before |-> before,
          ret |-> returned.ret, policies |-> returned.policies,
          stats |-> returned.stats, outcome |-> returned.outcome, failed |-> ~ok])

DbInsert ==
    /\ cmd = "idle"
    /\ \E p \in ScrapedPolicies, ok \in BOOLEAN :
        LET out == insert_policy(table, p, ok)
        IN  /\ table' = out.table
            /\ lastOp' = ApiCall("insert_policy", p.airline_code, Some(p), table, [Returned EXCEPT !.ret = out.ret], ok)
    /\ UNCHANGED <<sideVars, boolVars, recVars, repVars, driverVars, runVars>>

DbDelete ==
    /\ cmd = "idle"
    /\ \E code \in ConfiguredCodes, ok \in BOOLEAN :
        LET out == delete_policy(table, code, ok)
        IN  /\ table' = out.table
            /\ lastOp' = ApiCall("delete_policy", code, None, table, [Returned EXCEPT !.ret = out.ret], ok)
    /\ UNCHANGED <<sideVars, boolVars, recVars, repVars, driverVars, runVars>>

DbClear ==
    /\ cmd = "idle"
    /\ \E ok \in BOOLEAN :
        LET out == clear_all_policies(table, ok)
        IN  /\ table' = out.table
            /\ lastOp' = ApiCall("clear_all_policies", "", None, table, [Returned EXCEPT !.ret = out.ret], ok)
    /\ UNCHANGED <<sideVars, boolVars, recVars, repVars, driverVars, runVars>>

DbGetByCode ==
    /\ cmd = "idle"
    /\ \E code \in ConfiguredCodes, ok \in BOOLEAN :
        lastOp' = ApiCall("get_policy_by_code", code, None, table,
                          [Returned EXCEPT !.policies = get_policy_by_code(table, code, ok)], ok)
    /\ UNCHANGED <<sideVars, boolVars, recVars, repVars, table, driverVars, runVars>>

DbGetAll ==
    /\ cmd = "idle"
    /\ \E ordered_rows \in Orderings(table), ok \in BOOLEAN :
        lastOp' = ApiCall("get_all_policies", "", None, table,
                          [Returned EXCEPT !.policies = get_all_policies(ordered_rows, ok)], ok)
    /\ UNCHANGED <<sideVars, boolVars, recVars, repVars, table, driverVars, runVars>>

DbGetRequiringReview ==
    /\ cmd = "idle"
    /\ \E ordered_rows \in Orderings(table), ok \in BOOLEAN :
        lastOp' = ApiCall("get_policies_requiring_review", "", None, table,
                          [Returned EXCEPT
                              !.policies = get_policies_requiring_review(ordered_rows, ok)], ok)
    /\ UNCHANGED <<sideVars, boolVars, recVars, repVars, table, driverVars, runVars>>

DbGetViable ==
    /\ cmd = "idle"
    /\ \E ok \in BOOLEAN :
        lastOp' = ApiCall("get_viable_airlines", "", None, table,
                          [Returned EXCEPT !.policies = get_viable_airlines(table, ok)], ok)
    /\ UNCHANGED <<sideVars, boolVars, recVars, repVars, table, driverVars, runVars>>

DbGetStatistics ==
    /\ cmd = "idle"
    /\ \E failed_query \in 0..Len(StatQueries) :
        lastOp' = ApiCall("get_statistics", "", None, table,
                          [Returned EXCEPT !.stats = get_statistics(table, failed_query)],
                          failed_query = 0)
    /\ UNCHANGED <<sideVars, boolVars, recVars, repVars, table, driverVars, runVars>>

-----------------------------------------------------------------------------
(* main.py: the commands *)

\* python main.py --analyze: analyze_data returns at once when no policy was
\* loaded, and otherwise logs the statistics and the viability report
AnalyzeData ==
    /\ cmd = "idle"
    /\ \E ordered_rows \in Orderings(table), ok \in BOOLEAN :
        LET policies == get_all_policies(ordered_rows, ok)
        IN  \E overall_score \in calculate_overall_viability_score(policies) :
                lastOp' = ApiCall("analyze", "", None, table,
                                  [Returned EXCEPT !.outcome =
                                      IF Len(load_data(policies)) = 0
                                      THEN Some([raised |-> FALSE, value |-> None])
                                      ELSE Some(generate_viability_report(policies,
                                                                          overall_score))],
                                  ok)
    /\ UNCHANGED <<sideVars, boolVars, recVars, repVars, table, driverVars, runVars>>

\* python main.py --report: generate_full_report has no such test, and
\* generate_report raises again what it raised
GenerateReport ==
    /\ cmd = "idle"
    /\ \E ordered_rows \in Orderings(table), ok \in BOOLEAN :
        LET policies == get_all_policies(ordered_rows, ok)
        IN  \E overall_score \in calculate_overall_viability_score(policies) :
                lastOp' = ApiCall("report", "", None, table,
                                  [Returned EXCEPT !.outcome =
                                      Some(generate_viability_report(policies,
                                                                     overall_score))],
                                  ok)
    /\ UNCHANGED <<sideVars, boolVars, recVars, repVars, table, driverVars, runVars>>

\* python main.py --export: the policies that are written to the files
ExportData ==
    /\ cmd = "idle"
    /\ \E ordered_rows \in Orderings(table), ok \in BOOLEAN :
        lastOp' = ApiCall("export", "", None, table,
                          [Returned EXCEPT !.policies = export_to_dict_list(ordered_rows, ok)],
                          ok)
    /\ UNCHANGED <<sideVars, boolVars, recVars, repVars, table, driverVars, runVars>>

\* python main.py --scrape-all
StartScrapeAll ==
    /\ cmd = "idle"
    /\ cmd' = "scrape_all"
    /\ idx' = 1
    /\ lastOp' = None
    /\ UNCHANGED <<sideVars, boolVars, recVars, repVars, table, arg, results, escaped, scrapeLog, runVars>>

\* python main.py --scrape CODE
StartScrapeAirline ==
    /\ cmd = "idle"
    /\ cmd' = "scrape_airline"
    /\ arg' \in {Some(a) : a \in AirlineArgs}
    /\ lastOp' = None
    /\ UNCHANGED <<sideVars, boolVars, recVars, repVars, table, idx, results, escaped, scrapeLog, runVars>>

\* the code of the call of scrape_airline that is due, if one is
DueCall ==
    IF cmd = "scrape_all" /\ idx <= Len(ConfiguredAirlines)
    THEN Some(ConfiguredAirlines[idx].codigo)
    ELSE IF cmd = "scrape_airline" /\ scrapeLog = <<>>
    THEN arg
    ELSE None

\* scrape_airline up to the call of scraper.scrape(): the code is upper-cased
\* and looked up, the scraper is constructed
CallScrapeAirline ==
    /\ pc = "idle"
    /\ ~IsNone(DueCall)
    /\ scrapeLog' = Append(scrapeLog, Val(DueCall))
    /\ tableAtStart' = table
    /\ LET airline_code == Upper(Val(DueCall))
       IN  IF airline_code \notin SCRAPER_MAP
           THEN /\ ret' = Some(Returns(AirlineResult(airline_code, FALSE, Some(NotFoundMessage))))
                /\ pc' = "return"
                /\ UNCHANGED scraper
           ELSE \E constructed \in BOOLEAN :
                    IF constructed
                    THEN /\ scraper' = Some(ScraperClass(airline_code))
                         /\ pc' = "fetch"
                         /\ UNCHANGED ret
                    ELSE /\ ret' = Some(ScraperFailed(airline_code, ConstructorError))
                         /\ pc' = "return"
                         /\ UNCHANGED scraper
    /\ UNCHANGED <<sideVars, boolVars, recVars, repVars, storeVars, cmd, arg, idx, results, escaped, fetchVars, snapshot,
                   policy, insertReturn, changed, result>>

\* scrape() has its ScrapingResult; scrape_airline builds its dict from it
Finish(r) ==
    /\ result' = Some(r)
    /\ ret' = Some(ScraperReturned(r))
    /\ pc' = "return"

\* one pass of the loop of fetch_page: wait, request, return or go round; a
\* failed request returns None from the except branch or, the range being
\* used up, from the line after the loop
FetchAttempt ==
    /\ pc = "fetch"
    /\ attempt < MAX_RETRIES
    /\ waits' = (IF attempt > 0 THEN Append(waits, BackoffWait(attempt)) ELSE waits)
    /\ \E response \in {None} \cup {Some(b) : b \in ResponseBodies} :
        /\ responses' = Append(responses, response)
        /\ IF ~IsNone(response)
           THEN /\ html' = response
                /\ pc' = "fetched"
                /\ UNCHANGED attempt
           ELSE IF RetriesExhausted(attempt) \/ LoopEnds(attempt)
           THEN /\ html' = None
                /\ pc' = "fetched"
                /\ UNCHANGED attempt
           ELSE /\ attempt' = attempt + 1
                /\ UNCHANGED <<html, pc>>
    /\ UNCHANGED <<sideVars, boolVars, recVars, repVars, storeVars, driverVars, scraper, snapshot, policy, insertReturn,
                   changed, result, ret, tableAtStart>>

\* scrape() after fetch_page: no content raises; otherwise the page is parsed
\* and save_snapshot writes the file or logs its own failure
CheckAndSnapshot ==
    /\ pc = "fetched"
    /\ IF HtmlMissing(html)
       THEN /\ Finish(FailureResult(Val(scraper).airline_name, NoContentError))
            /\ UNCHANGED snapshot
       ELSE /\ \E writable \in BOOLEAN : snapshot' = save_snapshot(html, writable)
            /\ pc' = "extract"
            /\ UNCHANGED <<result, ret>>
    /\ UNCHANGED <<sideVars, boolVars, recVars, repVars, storeVars, driverVars, scraper, fetchVars, policy, insertReturn,
                   changed, tableAtStart>>

\* extract_data, validate_extracted_data and calculate_confidence_score
ExtractValidateScore ==
    /\ pc = "extract"
    /\ LET extracted == extract_data(Val(scraper), Val(html))
       IN  IF extracted.raised
           THEN /\ Finish(FailureResult(Val(scraper).airline_name, ExtractionError))
                /\ UNCHANGED policy
           ELSE /\ policy' = Some(ValidateAndScore(Val(extracted.policy)))
                /\ pc' = "insert"
                /\ UNCHANGED <<result, ret>>
    /\ UNCHANGED <<sideVars, boolVars, recVars, repVars, storeVars, driverVars, scraper, fetchVars, snapshot, insertReturn,
                   changed, tableAtStart>>

\* self.db.insert_policy(policy): the value it returns is not looked at
InsertPolicy ==
    /\ pc = "insert"
    /\ \E ok \in BOOLEAN :
        LET out == insert_policy(table, Val(policy), ok)
        IN  /\ table' = out.table
            /\ insertReturn' = Some(out.ret)
    /\ pc' = "detect"
    /\ UNCHANGED <<sideVars, boolVars, recVars, repVars, lastOp, driverVars, scraper, fetchVars, snapshot, policy, changed,
                   result, ret, tableAtStart>>

\* self.detect_policy_changes(policy), then the successful ScrapingResult
DetectChanges ==
    /\ pc = "detect"
    /\ \E ok \in BOOLEAN :
        changed' = Some(detect_policy_changes(table, Val(scraper).airline_code, Val(policy), ok))
    /\ Finish(SuccessResult(Val(scraper).airline_name, Val(policy)))
    /\ UNCHANGED <<sideVars, boolVars, recVars, repVars, storeVars, driverVars, scraper, fetchVars, snapshot, policy,
                   insertReturn, tableAtStart>>

\* scrape_airline returns (or raises) to the command that called it
ReturnToCaller ==
    /\ pc = "return"
    /\ IF Val(ret).raised
       THEN /\ escaped' = TRUE
            /\ cmd' = "done"
            /\ UNCHANGED <<results, idx>>
       ELSE /\ results' = Append(results, Val(Val(ret).value))
            /\ UNCHANGED escaped
            /\ IF cmd = "scrape_all"
               THEN idx' = idx + 1 /\ UNCHANGED cmd
               ELSE cmd' = "done" /\ UNCHANGED idx
    /\ pc' = "idle"
    /\ scraper' = None
    /\ attempt' = 0
    /\ responses' = <<>>
    /\ waits' = <<>>
    /\ html' = None
    /\ snapshot' = "none"
    /\ policy' = None
    /\ insertReturn' = None
    /\ changed' = None
    /\ result' = None
    /\ ret' = None
    /\ tableAtStart' = {}
    /\ UNCHANGED <<sideVars, boolVars, recVars, repVars, storeVars, arg, scrapeLog>>

\* the loop of scrape_all has gone through the configured list
FinishScrapeAll ==
    /\ cmd = "scrape_all"
    /\ pc = "idle"
    /\ idx > Len(ConfiguredAirlines)
    /\ cmd' = "done"
    /\ UNCHANGED <<sideVars, boolVars, recVars, repVars, storeVars, arg, idx, results, escaped, scrapeLog, runVars>>

\* the process ends; the database file stays for the next command
NextCommand ==
    /\ cmd = "done"
    /\ cmd' = "idle"
    /\ arg' = None
    /\ idx' = 0
    /\ results' = <<>>
    /\ escaped' = FALSE
    /\ scrapeLog' = <<>>
    /\ UNCHANGED <<sideVars, boolVars, recVars, repVars, storeVars, runVars>>

Next ==
    \/ DbInsert
    \/ DbDelete
    \/ DbClear
    \/ DbGetByCode
    \/ DbGetAll
    \/ DbGetRequiringReview
    \/ DbGetViable
    \/ DbGetStatistics
    \/ AnalyzeData
    \/ GenerateReport
    \/ ExportData
    \/ StartScrapeAll
    \/ StartScrapeAirline
    \/ CallScrapeAirline
    \/ FetchAttempt
    \/ CheckAndSnapshot
    \/ ExtractValidateScore
    \/ InsertPolicy
    \/ DetectChanges
    \/ ReturnToCaller
    \/ FinishScrapeAll
    \/ NextCommand

Spec == Init /\ [][Next]_vars

\* fetch_page runs in the one thread of the program: once entered, the loop
\* keeps taking its steps
FairSpec == Spec /\ WF_vars(FetchAttempt)

-----------------------------------------------------------------------------
(* detect_boolean_policy on its own: one call on each text and keyword list *)

BoolInit ==
    /\ text \in Texts
    /\ keywords \in KeywordLists
    /\ positive_matches = 0
    /\ negative_matches = 0
    /\ boolResult = None
    /\ bpc = "call"
    /\ RecIdle
    /\ RepIdle
    /\ table = {}
    /\ lastOp = None
    /\ DriverIdle
    /\ RunIdle
    /\ SideIdle

\* one call of detect_boolean_policy, from its first line to its return
DetectBooleanPolicy ==
    /\ bpc = "call"
    /\ positive_matches' = (IF text = "" THEN 0 ELSE PositiveCount(text, keywords))
    /\ negative_matches' = (IF text = "" THEN 0 ELSE NegativeCount(text))
    /\ boolResult' = Some(detect_boolean_policy(text, keywords))
    /\ bpc' = "done"
    /\ UNCHANGED <<sideVars, text, keywords, recVars, repVars, pipeVars>>

BoolNext == DetectBooleanPolicy

SpecBool == BoolInit /\ [][BoolNext]_vars

-----------------------------------------------------------------------------
(* The functions of one record on their own *)

RecInit ==
    /\ BoolIdle
    /\ record \in {Some(r) : r \in Records}
    /\ recOut = None
    /\ prevOut = None
    /\ rpc = "call"
    /\ RepIdle
    /\ table = {}
    /\ lastOp = None
    /\ DriverIdle
    /\ RunIdle
    /\ SideIdle

\* the functions are applied to the record
ApplyToRecord ==
    /\ rpc = "call"
    /\ recOut' = Some(RecordOutputs(Val(record)))
    /\ rpc' = "done"
    /\ UNCHANGED <<sideVars, boolVars, record, prevOut, repVars, pipeVars>>

\* one null critical or important field gets a value, the rest stays, and the
\* functions are applied again
FillField ==
    /\ rpc = "done"
    /\ \E field \in ScoredFields :
        /\ IsNone(Val(record)[field])
        /\ record' = Some([Val(record) EXCEPT ![field] = FilledValue(field)])
    /\ prevOut' = recOut
    /\ recOut' = Some(RecordOutputs(Val(record')))
    /\ rpc' = "filled"
    /\ UNCHANGED <<sideVars, boolVars, repVars, pipeVars>>

RecNext == ApplyToRecord \/ FillField

SpecRecord == RecInit /\ [][RecNext]_vars

-----------------------------------------------------------------------------
(* The viability report on its own: one store, the report generated twice *)

RepInit ==
    /\ BoolIdle
    /\ RecIdle
    /\ store \in Stores
    /\ report = None
    /\ reportAgain = None
    /\ repc = "call"
    /\ table = {}
    /\ lastOp = None
    /\ DriverIdle
    /\ RunIdle
    /\ SideIdle

\* a new PolicyAnalyzer loads the store and generates the report
GenerateViabilityReport ==
    /\ repc = "call"
    /\ \E overall_score \in calculate_overall_viability_score(get_all_policies(store, TRUE)) :
        report' = Some(generate_viability_report(get_all_policies(store, TRUE), overall_score))
    /\ repc' = "done"
    /\ UNCHANGED <<sideVars, boolVars, recVars, store, reportAgain, pipeVars>>

\* the report is generated once more; nothing was written to the store
GenerateViabilityReportAgain ==
    /\ repc = "done"
    /\ \E overall_score \in calculate_overall_viability_score(get_all_policies(store, TRUE)) :
        \* the same floats are rounded the same way
        /\ IF Val(report).raised THEN TRUE
           ELSE overall_score = Val(Val(report).value).overall_viability_score
        /\ reportAgain' =
            Some(generate_viability_report(get_all_policies(store, TRUE), overall_score))
    /\ repc' = "again"
    /\ UNCHANGED <<sideVars, boolVars, recVars, store, report, pipeVars>>

RepNext == GenerateViabilityReport \/ GenerateViabilityReportAgain

SpecReport == RepInit /\ [][RepNext]_vars

-----------------------------------------------------------------------------
(* The amount extractors on their own: both are called on each text *)

\* the pieces the texts are put together from: what leads to the amount, the
\* currency sign, the digits and separators, and what follows them
AmountLeads == <<"", "valor de ", "valor ", "USD ", "costo: ", "  ">>

AmountSigns == <<"", "$", "$ ">>

AmountDigits == <<"", "150.000", "45.50", "1,234.56", "80", ".", "1.2.3", "20.">>

AmountTails == <<"", " COP", "COP", " USD", " pesos colombianos", " pesos", " dólares",
                 " o 90.000 COP", " usd y $30 USD", ". ">>

Range(seq) == {seq[i] : i \in 1..Len(seq)}

AmountTexts ==
    { lead \o sign \o digits \o tail :
        lead \in Range(AmountLeads), sign \in Range(AmountSigns),
        digits \in Range(AmountDigits), tail \in Range(AmountTails) }

AmountInit ==
    /\ BoolIdle
    /\ RecIdle
    /\ RepIdle
    /\ amountText \in AmountTexts
    /\ copAmount = None
    /\ usdAmount = None
    /\ apc = "cop"
    /\ RaceIdle
    /\ table = {}
    /\ lastOp = None
    /\ DriverIdle
    /\ RunIdle

\* one call of extract_cop_amount
ExtractCopAmount ==
    /\ apc = "cop"
    /\ copAmount' = Some(extract_cop_amount(amountText))
    /\ apc' = "usd"
    /\ UNCHANGED <<boolVars, recVars, repVars, amountText, usdAmount, raceVars, pipeVars>>

\* one call of extract_usd_amount
ExtractUsdAmount ==
    /\ apc = "usd"
    /\ usdAmount' = Some(extract_usd_amount(amountText))
    /\ apc' = "done"
    /\ UNCHANGED <<boolVars, recVars, repVars, amountText, copAmount, raceVars, pipeVars>>

AmountNext == ExtractCopAmount \/ ExtractUsdAmount

SpecAmount == AmountInit /\ [][AmountNext]_vars

-----------------------------------------------------------------------------
(* Two scrape runs of one airline, started as two invocations of the program *)
(* on one database file.  Each run takes the steps of scrape() that follow   *)
(* the fetch; SQLite commits the one statement of insert_policy as a whole,  *)
(* and a writer that finds the file locked gets sqlite3.OperationalError.    *)

\* the airline both runs scrape
RaceScraper == ScraperClass("AV")

\* what the table holds when the runs begin: nothing, or rows of earlier runs
RaceTables ==
    { {},
      { to_db_tuple(ValidateAndScore(Val(extract_data(ScraperClass(c), PageBare).policy))) :
            c \in ConfiguredCodes } }

RaceInit ==
    /\ BoolIdle
    /\ RecIdle
    /\ RepIdle
    /\ AmountIdle
    /\ racePc = [r \in Runs |-> "extract"]
    /\ racePage \in [Runs -> {Some(h) : h \in StorablePages}]
    /\ racePolicy = [r \in Runs |-> None]
    /\ raceReturn = [r \in Runs |-> None]
    /\ raceChanged = [r \in Runs |-> None]
    /\ commits = <<>>
    /\ table \in RaceTables
    /\ lastOp = None
    /\ DriverIdle
    /\ RunIdle

\* extract_data, validate_extracted_data and calculate_confidence_score of run r
RaceExtract(r) ==
    /\ racePc[r] = "extract"
    /\ racePolicy' = [racePolicy EXCEPT ![r] =
            Some(ValidateAndScore(Val(extract_data(RaceScraper, Val(racePage[r])).policy)))]
    /\ racePc' = [racePc EXCEPT ![r] = "insert"]
    /\ UNCHANGED <<boolVars, recVars, repVars, amountVars, racePage, raceReturn, raceChanged,
                   commits, pipeVars>>

\* self.db.insert_policy(policy) of run r
RaceInsert(r) ==
    /\ racePc[r] = "insert"
    /\ \E ok \in BOOLEAN :
        LET out == insert_policy(table, Val(racePolicy[r]), ok)
        IN  /\ table' = out.table
            /\ raceReturn' = [raceReturn EXCEPT ![r] = Some(out.ret)]
            /\ commits' = (IF ok THEN Append(commits, r) ELSE commits)
    /\ racePc' = [racePc EXCEPT ![r] = "detect"]
    /\ UNCHANGED <<boolVars, recVars, repVars, amountVars, racePage, racePolicy, raceChanged,
                   lastOp, driverVars, runVars>>

\* self.detect_policy_changes(policy) of run r, then its successful result
RaceDetect(r) ==
    /\ racePc[r] = "detect"
    /\ \E ok \in BOOLEAN :
        raceChanged' = [raceChanged EXCEPT ![r] =
            Some(detect_policy_changes(table, RaceScraper.airline_code, Val(racePolicy[r]), ok))]
    /\ racePc' = [racePc EXCEPT ![r] = "done"]
    /\ UNCHANGED <<boolVars, recVars, repVars, amountVars, racePage, racePolicy, raceReturn,
                   commits, pipeVars>>

RaceNext ==
    \/ \E r \in Runs : RaceExtract(r)
    \/ \E r \in Runs : RaceInsert(r)
    \/ \E r \in Runs : RaceDetect(r)

SpecRace == RaceInit /\ [][RaceNext]_vars

-----------------------------------------------------------------------------
(* Properties of detect_boolean_policy, checked under SpecBool *)

ScenarioNegative == "no se permite el cambio de nombre"

ScenarioPositive == "se permite el cambio de nombre"

\* C7 (as the specification states it): without caller keywords,
\* detect_boolean_policy("no se permite el cambio de nombre") is (False, c)
\* with c > 0 and detect_boolean_policy("se permite el cambio de nombre") is True.
C7_ScenarioTexts ==
    (bpc = "done" /\ keywords = <<>>) =>
        /\ text = ScenarioNegative =>
              /\ Val(boolResult).value = Some(FALSE)
              /\ Val(boolResult).confidence.num > 0
        /\ text = ScenarioPositive => Val(boolResult).value = Some(TRUE)

\* C8: with p positive and n negative matches the call returns
\* (True, min(p/(p+n+1), 0.9)) if p > n, (False, min(n/(p+n+1), 0.9)) if n > p
\* and (None, 0.0) if p = n, the empty text included.
C8_MajorityAndConfidence ==
    bpc = "done" =>
        LET p == positive_matches
            n == negative_matches
            r == Val(boolResult)
            capped(m) == IF 10 * m <= 9 * (p + n + 1) THEN Frac(m, p + n + 1) ELSE Frac(9, 10)
        IN  /\ p > n => r = [value |-> <<TRUE>>, confidence |-> capped(p)]
            /\ n > p => r = [value |-> <<FALSE>>, confidence |-> capped(n)]
            /\ p = n => r = [value |-> <<>>, confidence |-> Frac(0, 1)]
            /\ text = "" => (p = 0 /\ n = 0)

\* C8's case: a call whose positive count wins by so much that the cap applies
C8_Witness ==
    /\ bpc = "done"
    /\ positive_matches >= 10
    /\ negative_matches = 0
    /\ Val(boolResult) = [value |-> <<TRUE>>, confidence |-> Frac(9, 10)]

Negation(v) == IF v = <<>> THEN <<>> ELSE <<~v[1]>>

\* C9: the decision for the match counts swapped is the negation of the
\* decision the call returned (None stays None), with an equal confidence.
C9_SwapSymmetry ==
    bpc = "done" =>
        LET r == Val(boolResult)
            swapped == DecideFromCounts(negative_matches, positive_matches)
        IN  /\ swapped.value = Negation(r.value)
            /\ FracEq(swapped.confidence, r.confidence)

\* C9's case: a call the negative side won against a non-zero positive count
C9_Witness ==
    /\ bpc = "done"
    /\ negative_matches > positive_matches
    /\ positive_matches > 0
    /\ Val(boolResult).value = <<FALSE>>

\* C10: for every text and every caller keyword list the confidence returned
\* lies in [0.0, 0.9].
C10_ConfidenceRange ==
    bpc = "done" =>
        LET c == Val(boolResult).confidence
        IN  /\ c.den > 0
            /\ 0 <= c.num
            /\ 10 * c.num <= 9 * c.den

\* C10's case: caller keywords raise the uncapped quotient above 0.9
C10_Witness ==
    /\ bpc = "done"
    /\ keywords # <<>>
    /\ 10 * positive_matches > 9 * (positive_matches + negative_matches + 1)
    /\ CountKeywords(keywords, Strip(Lower(text))) > 0

\* C30: whenever detect_boolean_policy returns True or False the confidence
\* is at least 0.5 and at most 0.9, the winning count being strictly the
\* larger; the confidence 0.0 comes only with the decision None.
C30_DecisionConfidenceAtLeastHalf ==
    bpc = "done" =>
        LET r == Val(boolResult)
        IN  /\ ~IsNone(r.value) =>
                /\ positive_matches # negative_matches
                /\ r.confidence.den > 0
                /\ r.confidence.den <= 2 * r.confidence.num
                /\ 10 * r.confidence.num <= 9 * r.confidence.den
            /\ r.confidence.num = 0 => IsNone(r.value)

\* C30's case: the negative side wins by one match against a non-zero
\* positive count, and the confidence is exactly 0.5
C30_Witness ==
    /\ bpc = "done"
    /\ Val(boolResult).value = Some(FALSE)
    /\ positive_matches > 0
    /\ negative_matches = positive_matches + 1
    /\ 2 * Val(boolResult).confidence.num = Val(boolResult).confidence.den

-----------------------------------------------------------------------------
(* Properties of the store and of the scrape pipeline, checked under Spec *)

\* the code of the airline of the run in progress
RunCode == Val(scraper).airline_code

AllFailed(rs) == \A i \in 1..Len(rs) : IsNone(rs[i])

\* C1: after any sequence of insert_policy, delete_policy and
\* clear_all_policies calls the table holds at most one row per airline code,
\* and an insert_policy that succeeded leaves, for its code, exactly the row
\* of the record it was given, the rows of the other codes being untouched.
C1_UpsertUniqueness ==
    /\ \A c \in SCRAPER_MAP : Cardinality(RowsOf(table, c)) <= 1
    /\ (~IsNone(lastOp) /\ Val(lastOp).op = "insert_policy" /\ Val(lastOp).ret) =>
            LET p == Val(Val(lastOp).policy)
                before == Val(lastOp).before
            IN  /\ RowsOf(table, p.airline_code) = {to_db_tuple(p)}
                /\ table \ RowsOf(table, p.airline_code)
                     = before \ RowsOf(before, p.airline_code)
    /\ (pc = "detect" /\ insertReturn = Some(TRUE)) =>
            RowsOf(table, RunCode) = {to_db_tuple(Val(policy))}

\* an insert_policy that succeeded on a code stored with another content
C1_Witness ==
    /\ ~IsNone(lastOp)
    /\ Val(lastOp).op = "insert_policy"
    /\ Val(lastOp).ret
    /\ RowsOf(Val(lastOp).before, Val(lastOp).code) # {}
    /\ RowsOf(Val(lastOp).before, Val(lastOp).code) # {to_db_tuple(Val(Val(lastOp).policy))}
    /\ Cardinality(table) = Cardinality(Val(lastOp).before)

\* the hash stored for the code when the run began, if a row was stored
PreviousHash(code) ==
    IF RowsOf(tableAtStart, code) = {} THEN None
    ELSE Some((CHOOSE r \in RowsOf(tableAtStart, code) : TRUE).raw_html_hash)

\* C2: when scrape() returns a success, the change it detected is "changed"
\* exactly when the table held no row for the code before this run's insert
\* or the hash stored then differs from the hash of the new record.
C2_ChangeAgainstPreviousRun ==
    (pc = "return" /\ ~IsNone(changed)) =>
        (Val(changed) <=> (\/ IsNone(PreviousHash(RunCode))
                           \/ Val(PreviousHash(RunCode)) # Val(policy).raw_html_hash))

\* C3: when every request of a scrape failed, scrape() returns success=False
\* with a non-empty error message and no policy, and the table is as it was
\* when the scrape began.
C3_TotalFetchFailure ==
    (pc = "return" /\ ~IsNone(result) /\ responses # <<>> /\ AllFailed(responses)) =>
        /\ ~Val(result).success
        /\ ~IsNone(Val(result).error_message)
        /\ Val(Val(result).error_message) # ""
        /\ IsNone(Val(result).policy)
        /\ table = tableAtStart

\* a scrape whose requests all failed, for a code that had a row stored
C3_Witness ==
    /\ pc = "return"
    /\ ~IsNone(result)
    /\ Len(responses) = MAX_RETRIES
    /\ AllFailed(responses)
    /\ RowsOf(tableAtStart, RunCode) # {}
    /\ ~Val(result).success

\* the safety part of C4, on the requests and waits made so far
FetchBounded ==
    /\ Len(responses) <= MAX_RETRIES
    /\ AllFailed(SubSeq(responses, 1, Len(responses) - 1))
    /\ Len(waits) = (IF responses = <<>> THEN 0 ELSE Len(responses) - 1)
    /\ \A k \in 1..Len(waits) : waits[k] = RETRY_BACKOFF ^ k
    /\ pc = "fetch" => attempt = Len(responses) /\ attempt < MAX_RETRIES /\ AllFailed(responses)
    /\ pc \in {"fetched", "extract", "insert", "detect"} =>
        /\ responses # <<>>
        /\ html = responses[Len(responses)]
        /\ IsNone(html) <=> (Len(responses) = MAX_RETRIES /\ AllFailed(responses))

\* C4: fetch_page terminates; it makes at most MAX_RETRIES requests, every
\* request before the last one made has failed and the body of the first
\* successful one is what it returns, the k-th retry is preceded by a wait of
\* RETRY_BACKOFF^k, and it returns None only after MAX_RETRIES failures.
C4_FetchTerminates ==
    /\ []FetchBounded
    /\ (pc = "fetch") ~> (pc = "fetched")

\* fetch_page returned the body of its last allowed request, after two retries
C4_Witness ==
    /\ pc = "fetched"
    /\ Len(responses) = MAX_RETRIES
    /\ ~IsNone(html)
    /\ Len(waits) = MAX_RETRIES - 1

\* C5: for every record extraction produced, scrape() returns success=True
\* with the record stored, and the stored record has requires_manual_review
\* set and the joined errors as notes exactly when validation found errors.
C5_ValidationNeverAborts ==
    (pc = "return" /\ ~IsNone(policy)) =>
        LET p == Val(policy)
            errors == validate_extracted_data(p).errors
        IN  /\ Val(result).success
            /\ RowsOf(table, p.airline_code) = {to_db_tuple(p)}
            /\ \A r \in RowsOf(table, p.airline_code) :
                 LET stored == row_to_policy(r)
                 IN  IF Len(errors) > 0
                     THEN /\ stored.requires_manual_review
                          /\ stored.manual_review_notes = Some(JoinWith("; ", errors))
                     ELSE /\ ~stored.requires_manual_review
                          /\ IsNone(stored.manual_review_notes)

\* the names a result of the i-th configured airline may carry
ResultNames(i) == {ConfiguredAirlines[i].nombre, ConfiguredAirlines[i].codigo}

\* C6: during scrape_all, scrape_airline has been called once for each
\* configured airline reached so far, in the configured order, each call that
\* returned has left one result at its position, no exception has escaped,
\* and when scrape_all ends every configured airline has its result.
C6_ScrapeAllCompletes ==
    (arg = None /\ cmd \in {"scrape_all", "done"}) =>
        /\ ~escaped
        /\ Len(scrapeLog) <= NumAirlines
        /\ \A i \in 1..Len(scrapeLog) : scrapeLog[i] = ConfiguredAirlines[i].codigo
        /\ Len(results) = (IF pc = "idle" THEN Len(scrapeLog) ELSE Len(scrapeLog) - 1)
        /\ \A i \in 1..Len(results) : results[i].airline \in ResultNames(i)
        /\ cmd = "done" => Len(results) = NumAirlines

\* scrape_all has ended although the scrape of its first airline failed
C6_Witness ==
    /\ cmd = "done"
    /\ arg = None
    /\ Len(results) = NumAirlines
    /\ ~results[1].success
    /\ results[NumAirlines].success

-----------------------------------------------------------------------------
(* Properties of the functions of one record, checked under SpecRecord *)

CriticalFieldNames ==
    { "allows_full_name_change", "allows_name_correction", "allows_transfer_to_third_party",
      "cost_name_change_domestic_cop" }

ImportantFieldNames ==
    { "allows_cancellation", "cancellation_cost_cop", "refund_percentage", "time_restrictions" }

NonNull(r, fields) == Cardinality({f \in fields : ~IsNone(r[f])})

Abs(x) == IF x < 0 THEN -x ELSE x

\* the weight 2*c + i of the claim, for the record r
ClaimedWeight(r) == 2 * NonNull(r, CriticalFieldNames) + NonNull(r, ImportantFieldNames)

\* C11: the confidence score of a record is (2*c + i)/12 rounded to two
\* decimals, c and i the numbers of non-null critical and important fields,
\* and lies in [0.0, 1.0].
C11_ConfidenceScoreFormula ==
    rpc \in {"done", "filled"} =>
        LET score == Val(recOut).score
        IN  /\ score.den = 100
            /\ 0 <= score.num /\ score.num <= 100
            /\ 2 * Abs(100 * ClaimedWeight(Val(record)) - 12 * score.num) < 12

\* a record with two critical fields and one important field: 5/12 gives 0.42
C11_Witness ==
    /\ rpc = "done"
    /\ NonNull(Val(record), CriticalFieldNames) = 2
    /\ NonNull(Val(record), ImportantFieldNames) = 1
    /\ Val(recOut).score = Frac(42, 100)

\* C12: filling one null critical or important field of a record, the other
\* fields staying as they are, never lowers its confidence score.
C12_ScoreMonotonic ==
    rpc = "filled" => FracLeq(Val(prevOut).score, Val(recOut).score)

\* a critical field was filled and the score went up
C12_Witness ==
    /\ rpc = "filled"
    /\ NonNull(Val(record), CriticalFieldNames) = 4
    /\ ~FracLeq(Val(recOut).score, Val(prevOut).score)

OutOfRange(x, low, high) == ~IsNone(x) /\ (Val(x) < low \/ Val(x) > high)

\* http:// or https:// and then at least one character, none of them white
\* space or one of the characters the pattern leaves out; a newline may end it
HttpUrlShape(u) ==
    LET stem == IF Len(u) > 0 /\ CharAt(u, Len(u)) = "\n" THEN SubSeq(u, 1, Len(u) - 1) ELSE u
        rest == IF Len(stem) >= 7 /\ SubSeq(stem, 1, 7) = "http://"
                THEN Some(SubSeq(stem, 8, Len(stem)))
                ELSE IF Len(stem) >= 8 /\ SubSeq(stem, 1, 8) = "https://"
                THEN Some(SubSeq(stem, 9, Len(stem)))
                ELSE None
    IN  /\ ~IsNone(rest)
        /\ Len(Val(rest)) >= 1
        /\ \A i \in 1..Len(Val(rest)) : CharAt(Val(rest), i) \notin UrlExcluded

BadUrl(x) == ~IsNone(x) /\ Val(x) # "" /\ ~HttpUrlShape(Val(x))

TriStateFieldNames ==
    { "allows_full_name_change", "allows_name_correction", "allows_transfer_to_third_party",
      "allows_cancellation" }

OptionalNumberNames ==
    { "cost_name_change_domestic_cop", "cost_name_change_intl_cop", "cost_name_change_usd",
      "cancellation_cost_cop", "refund_percentage" }

\* C19: after insert_policy and then get_policy_by_code, each tri-state
\* boolean field is null, false or true as it was written, and each optional
\* number is null when written null and 0 when written 0.
C19_RoundTripKeepsAbsence ==
    rpc \in {"done", "filled"} =>
        LET r == Val(record)
            fetched == Val(recOut).fetched
        IN  /\ ~IsNone(fetched)
            /\ \A f \in TriStateFieldNames : Val(fetched)[f] = r[f]
            /\ \A f \in OptionalNumberNames :
                 /\ IsNone(r[f]) <=> IsNone(Val(fetched)[f])
                 /\ r[f] = Some(0) <=> Val(fetched)[f] = Some(0)

\* a record written with null, false and 0 side by side
C19_Witness ==
    /\ rpc = "done"
    /\ Val(record).allows_cancellation = Some(FALSE)
    /\ Val(record).allows_full_name_change = None
    /\ Val(record).cost_name_change_domestic_cop = Some(0)
    /\ Val(record).cost_name_change_usd = None
    /\ Val(Val(recOut).fetched).allows_cancellation = Some(FALSE)
    /\ Val(Val(recOut).fetched).cost_name_change_usd = None

\* C20: the query of get_viable_airlines, is_transfer_viable and the viable
\* mask of the analyzer select a record exactly when its transfer to third
\* party is true or its full name change is true, null being not true.
C20_ViableDefinitionsAgree ==
    rpc \in {"done", "filled"} =>
        LET r == Val(record)
            viable == \/ r.allows_transfer_to_third_party = Some(TRUE)
                      \/ r.allows_full_name_change = Some(TRUE)
        IN  /\ Val(recOut).sql_viable <=> viable
            /\ Val(recOut).is_viable <=> viable
            /\ Val(recOut).mask_viable <=> viable

\* a record viable by its full name change alone, the transfer being null
C20_Witness ==
    /\ rpc = "done"
    /\ Val(record).allows_transfer_to_third_party = None
    /\ Val(record).allows_full_name_change = Some(TRUE)
    /\ Val(recOut).sql_viable
    /\ Val(recOut).is_viable
    /\ Val(recOut).mask_viable

-----------------------------------------------------------------------------
(* Properties of the viability report, checked under SpecReport *)

ReportReturned == repc \in {"done", "again"} /\ ~Val(report).raised

TheReport == Val(Val(report).value)

\* the number of stored rows whose column holds v
RowsWith(column, v) == Cardinality({i \in 1..Len(store) : store[i][column] = v})

\* T, C, R and N of the claim, counted on the stored rows
TransferCount == RowsWith("allows_transfer_to_third_party", Some(1))

AcceptableCostCount ==
    Cardinality({i \in 1..Len(store) :
        /\ store[i].cost_name_change_domestic_cop # None
        /\ Val(store[i].cost_name_change_domestic_cop) <= 200000})

ReviewCount == RowsWith("requires_manual_review", 1)

\* ten times N times the sum 0.5*T/N + 0.3*C/N + 0.2*(1 - R/N)
ClaimedScoreTimes10N ==
    5 * TransferCount + 3 * AcceptableCostCount + 2 * (Len(store) - ReviewCount)

\* C14: the overall viability score of a store of N > 0 records is
\* 0.5*T/N + 0.3*C/N + 0.2*(1 - R/N) rounded to two decimals (at most half a
\* hundredth away from the sum), T the records that allow transfer, C those
\* with a domestic cost that is present and at most the maximum acceptable
\* cost, R those flagged for review; it is 0.0 for an empty set, lies in
\* [0.0, 1.0], and is 1.0 when T = C = N and R = 0.  The score of a report
\* is such a value.
C14_ViabilityScoreFormula ==
    /\ \A h \in calculate_overall_viability_score(get_all_policies(store, TRUE)) :
        /\ 0 <= h /\ h <= 100
        /\ Len(store) = 0 => h = 0
        /\ Len(store) > 0 =>
            2 * Abs(100 * ClaimedScoreTimes10N - h * 10 * Len(store)) <= 10 * Len(store)
        /\ (/\ Len(store) > 0
            /\ TransferCount = Len(store)
            /\ AcceptableCostCount = Len(store)
            /\ ReviewCount = 0) => h = 100
    /\ calculate_overall_viability_score(get_all_policies(store, TRUE)) # {}
    /\ ReportReturned =>
        TheReport.overall_viability_score
            \in calculate_overall_viability_score(get_all_policies(store, TRUE))

\* a report on three records that all allow transfer at an acceptable cost
\* and need no review: the three components are maximal and the score is 1.0
C14_Witness ==
    /\ ReportReturned
    /\ Len(store) = 3
    /\ TransferCount = 3 /\ AcceptableCostCount = 3 /\ ReviewCount = 0
    /\ TheReport.overall_viability_score = 100

\* V of the claim: the stored rows with transfer allowed or full name change
\* allowed, a null counting as not true
ViableCount ==
    Cardinality({i \in 1..Len(store) :
        \/ store[i].allows_transfer_to_third_party = Some(1)
        \/ store[i].allows_full_name_change = Some(1)})

\* C15: the market coverage of a report is 100*V/N rounded to one decimal, V
\* the records with transfer or full name change allowed and N the number of
\* records; a second report on the unchanged store has the same coverage; 7
\* records of which exactly 3 allow transfer and none allows a full name
\* change give 42.9 and the band viable with restrictions.
C15_MarketCoverage ==
    /\ ReportReturned =>
        /\ 2 * Abs(1000 * ViableCount - TheReport.market_coverage_percentage * Len(store))
                <= Len(store)
        /\ Len(TheReport.viable_airlines) = ViableCount
        /\ (/\ Len(store) = 7
            /\ TransferCount = 3
            /\ RowsWith("allows_full_name_change", Some(1)) = 0) =>
                /\ TheReport.market_coverage_percentage = 429
                /\ TheReport.conclusion = ConclusionRestricted
                /\ TheReport.recommendation = RecommendationRestricted
                /\ get_viability_status(TheReport) = "VIABLE CON RESTRICCIONES"
    /\ repc = "again" =>
        /\ Val(reportAgain).raised = Val(report).raised
        /\ ReportReturned =>
            Val(Val(reportAgain).value).market_coverage_percentage
                = TheReport.market_coverage_percentage

\* the scenario of 7 records, 3 of them allowing transfer, one of the others
\* with a null: the report was generated twice and the coverage is 42.9
C15_Witness ==
    /\ repc = "again"
    /\ ReportReturned
    /\ Len(store) = 7
    /\ TransferCount = 3
    /\ RowsWith("allows_full_name_change", Some(1)) = 0
    /\ RowsWith("allows_transfer_to_third_party", None) > 0
    /\ TheReport.market_coverage_percentage = 429
    /\ Val(Val(reportAgain).value).market_coverage_percentage = 429

\* the band of a coverage given as the fraction num / den of a percent
BandOf(num, den) ==
    IF num >= 60 * den THEN "viable"
    ELSE IF num >= 40 * den THEN "restricted"
    ELSE "not viable"

BandTexts ==
    [ band \in {"viable", "restricted", "not viable"} |->
        CASE band = "viable" ->
                <<ConclusionViable, RecommendationViable, "VIABLE">>
          [] band = "restricted" ->
                <<ConclusionRestricted, RecommendationRestricted, "VIABLE CON RESTRICCIONES">>
          [] OTHER ->
                <<ConclusionNotViable, RecommendationNotViable, "NO VIABLE">> ]

-----------------------------------------------------------------------------
(* Properties of the store under errors and over time, checked under Spec *)

StoreWrites == {"insert_policy", "delete_policy", "clear_all_policies"}

StoreListReads == {"get_all_policies", "get_policies_requiring_review", "get_viable_airlines"}

\* C17: when a storage error occurs in a call on the store, a read returns an
\* empty result (None for the fetch by code, the empty list for the three
\* list reads, the empty dict for the statistics), a write returns False, and
\* the stored rows are those of before the call.
C17_StorageErrorsGiveEmpty ==
    (~IsNone(lastOp) /\ Val(lastOp).failed) =>
        LET call == Val(lastOp)
        IN  /\ table = call.before
            /\ call.op \in StoreWrites => call.ret = FALSE
            /\ call.op = "get_policy_by_code" => call.policies = None
            /\ call.op \in StoreListReads => call.policies = <<>>
            /\ call.op = "get_statistics" => call.stats = {}

Codes(tbl) == {r.airline_code : r \in tbl}

\* the step is a call of one of the operations ops that returned True, on the
\* code c where the operation takes a code
ExplicitRemoval(ops, c) ==
    /\ ~IsNone(lastOp')
    /\ Val(lastOp').op \in ops
    /\ Val(lastOp').op = "delete_policy" => Val(lastOp').code = c
    /\ Val(lastOp').ret

\* the step is an upsert of a record of code c that succeeded: the one of a
\* scrape, or a call of insert_policy
SuccessfulUpsert(c) ==
    \/ /\ pc = "insert"
       /\ pc' = "detect"
       /\ insertReturn' = Some(TRUE)
       /\ Val(policy).airline_code = c
    \/ /\ ~IsNone(lastOp')
       /\ Val(lastOp').op = "insert_policy"
       /\ Val(lastOp').code = c
       /\ Val(lastOp').ret

\* a stored row changes only by a successful upsert of its code
OnlyUpsertOverwrites ==
    \A r \in table :
        (r \notin table' /\ r.airline_code \in Codes(table')) => SuccessfulUpsert(r.airline_code)

\* C18 as stated: a record stored for a code stays stored over every step of
\* a scrape, an analysis, an export or a report generation, at most
\* overwritten by a successful upsert of its code, and its code leaves the
\* store only by the bulk clear.
C18_OnlyBulkClearRemoves ==
    [][ /\ OnlyUpsertOverwrites
        /\ \A r \in table :
            r.airline_code \notin Codes(table') =>
                ExplicitRemoval({"clear_all_policies"}, r.airline_code) ]_vars

\* C18: a record stored for a code stays stored over every step of a scrape
\* (successful or failed, of any airline), an analysis, an export or a report
\* generation, at most overwritten by a successful upsert of its code; its
\* code leaves the store only by an explicit delete: delete_policy on that
\* code, or clear_all_policies.
C18_OnlyExplicitDeletesRemove ==
    [][ /\ OnlyUpsertOverwrites
        /\ \A r \in table :
            r.airline_code \notin Codes(table') =>
                ExplicitRemoval({"delete_policy", "clear_all_policies"}, r.airline_code) ]_vars

\* a scrape that began with two records stored has upserted its record: one
\* is still stored as it was, the other was overwritten by the scrape
C18_Witness ==
    /\ pc = "detect"
    /\ insertReturn = Some(TRUE)
    /\ Cardinality(tableAtStart) = 2
    /\ Codes(table) = Codes(tableAtStart)
    /\ \E kept \in tableAtStart, replaced \in tableAtStart :
        /\ kept \in table
        /\ replaced \notin table

-----------------------------------------------------------------------------
(* Properties of one scrape and the store, checked under Spec *)

ScrapeSucceeded == pc = "return" /\ ~IsNone(result) /\ Val(result).success

\* C24: whenever scrape() returns success=True for a code, the upsert had
\* succeeded and get_policy_by_code on that code returns the record the
\* result carries, as far as the table has columns for it.
C24_SuccessMeansStored ==
    ScrapeSucceeded =>
        LET p == Val(Val(result).policy)
            fetched == get_policy_by_code(table, p.airline_code, TRUE)
        IN  /\ insertReturn = Some(TRUE)
            /\ ~IsNone(fetched)
            /\ to_db_tuple(Val(fetched)) = to_db_tuple(p)

\* the rows of the codes other than code
OtherRows(tbl, code) == tbl \ RowsOf(tbl, code)

\* C25: a scrape of a code, successful or failed, changes at most the row
\* stored for that code: at every point of the run the rows of every other
\* code are those of the beginning of the run, and a run that has no scraper
\* or failed has changed no row at all.
C25_ScrapeChangesOnlyItsRow ==
    pc # "idle" =>
        /\ IsNone(scraper) => table = tableAtStart
        /\ ~IsNone(scraper) => OtherRows(table, RunCode) = OtherRows(tableAtStart, RunCode)
        /\ (pc = "return" /\ ~IsNone(result) /\ ~Val(result).success) => table = tableAtStart

\* a successful scrape has overwritten the row of its code while the row of
\* another code is stored
C25_Witness ==
    /\ ScrapeSucceeded
    /\ insertReturn = Some(TRUE)
    /\ OtherRows(tableAtStart, RunCode) # {}
    /\ RowsOf(tableAtStart, RunCode) # {}
    /\ RowsOf(table, RunCode) # RowsOf(tableAtStart, RunCode)

\* the scrape has fetched and is past the test of the content
PastFetch == pc \in {"extract", "insert", "detect", "return"} /\ ~IsNone(scraper)

WithoutScore(p) == [p EXCEPT !.confidence_score = Zero]

\* C26: after the upsert of a scrape succeeded, get_policy_by_code on the
\* code returns a record equal to the upserted one in every field of
\* AirlinePolicy, the confidence_score that scrape() computed included.
C26_FetchEqualsUpserted ==
    (pc = "detect" /\ insertReturn = Some(TRUE)) =>
        LET fetched == get_policy_by_code(table, RunCode, TRUE)
        IN  /\ ~IsNone(fetched)
            /\ WithoutScore(Val(fetched)) = WithoutScore(Val(policy))
            /\ FracEq(Val(fetched).confidence_score, Val(policy).confidence_score)

\* the last call was the command op on an empty table, read without error
CommandOnEmptyStore(op) ==
    /\ ~IsNone(lastOp)
    /\ Val(lastOp).op = op
    /\ Val(lastOp).before = {}
    /\ ~Val(lastOp).failed

\* C27: with an empty store generate_statistics returns without raising, and
\* the analysis and the report generation complete without raising, so that
\* no command ends in an error only because no record is stored.
C27_EmptyStoreCompletes ==
    /\ CommandOnEmptyStore("analyze") => ~Val(Val(lastOp).outcome).raised
    /\ CommandOnEmptyStore("report") =>
        /\ ~generate_statistics(get_all_policies(<<>>, TRUE)).raised
        /\ ~Val(Val(lastOp).outcome).raised

-----------------------------------------------------------------------------
(* Properties of the written report, checked under SpecReport *)

\* C28: the sign of the conclusion section is the one of the band of the
\* coverage: the check mark from 60, the warning sign from 40 and below 60,
\* the cross below 40.
C28_IconMatchesBand ==
    ReportReturned =>
        status_icon(TheReport) =
            (CASE BandOf(TheReport.market_coverage_percentage, 10) = "viable" -> "check mark"
               [] BandOf(TheReport.market_coverage_percentage, 10) = "restricted" -> "warning sign"
               [] OTHER -> "cross")

\* the names of a list of airlines
NameSet(names) == {names[i] : i \in 1..Len(names)}

\* C29: for every record the status of the detail section is VIABLE exactly
\* when the airline is in the list of viable airlines of the report.
C29_DetailStatusMatchesViableList ==
    ReportReturned =>
        LET policies == get_all_policies(store, TRUE)
        IN  \A i \in 1..Len(policies) :
                viability_status(policies[i]) = "VIABLE"
                    <=> policies[i].airline_name \in NameSet(TheReport.viable_airlines)

-----------------------------------------------------------------------------
(* Properties of the amount extractors, checked under SpecAmount *)

\* the group without the characters of separators
RECURSIVE Stripped(_, _)
Stripped(group, separators) ==
    IF Len(group) = 0 THEN ""
    ELSE (IF CharAt(group, 1) \in separators THEN "" ELSE CharAt(group, 1))
            \o Stripped(SubSeq(group, 2, Len(group)), separators)

\* of each pattern of the list, the number its first match in txt parses as:
\* None where the pattern has no match or its first match is no number
ParsedFirstMatches(patterns, txt, currency) ==
    [ k \in 1..Len(patterns) |->
        LET group == FirstGroup(patterns[k], txt)
        IN  IF IsNone(group) THEN None
            ELSE IF currency = "COP" THEN ParseInt(Stripped(Val(group), {",", "."}))
            ELSE ParseFloat(Stripped(Val(group), {","})) ]

\* the value of the first pattern, in the order of the list, whose first match
\* parses as a number; None when there is no such pattern
FirstParsable(patterns, txt, currency) ==
    LET parsed == ParsedFirstMatches(patterns, txt, currency)
        parsable == {k \in 1..Len(patterns) : ~IsNone(parsed[k])}
    IN  IF parsable = {} THEN None
        ELSE parsed[CHOOSE k \in parsable : \A j \in parsable : k <= j]

\* C22: each extractor returns, without raising, the number of the first
\* pattern of its list whose first match parses once the separators are
\* stripped, and None when no pattern has such a match;
\* extract_cop_amount("$150.000 COP") is 150000 and
\* extract_usd_amount("$45.50 USD") is 45.5
C22_FirstParsableMatch ==
    /\ apc \in {"usd", "done"} =>
            /\ ~Val(copAmount).raised
            /\ Val(Val(copAmount).value) = FirstParsable(REGEX_COSTOS_COP, amountText, "COP")
            /\ amountText = "$150.000 COP" => Val(Val(copAmount).value) = Some(150000)
    /\ apc = "done" =>
            /\ ~Val(usdAmount).raised
            /\ Val(Val(usdAmount).value) = FirstParsable(REGEX_COSTOS_USD, amountText, "USD")
            /\ amountText = "$45.50 USD" =>
                    /\ ~IsNone(Val(Val(usdAmount).value))
                    /\ FracEq(Val(Val(Val(usdAmount).value)), Frac(455, 10))

\* both extractors have returned a number for a text in which an earlier
\* pattern of the peso list matched something that is no number
C22_Witness ==
    /\ apc = "done"
    /\ ~IsNone(Val(Val(copAmount).value))
    /\ ~IsNone(Val(Val(usdAmount).value))
    /\ \E k \in 1..Len(REGEX_COSTOS_COP) :
            /\ ~IsNone(FirstGroup(REGEX_COSTOS_COP[k], amountText))
            /\ IsNone(ParsedFirstMatches(REGEX_COSTOS_COP, amountText, "COP")[k])

-----------------------------------------------------------------------------
(* Properties of two interleaved scrape runs, checked under SpecRace *)

\* the rows the table holds for the airline of the two runs
RaceRows == RowsOf(table, RaceScraper.airline_code)

\* the run whose upsert was committed last
LastCommitted == commits[Len(commits)]

\* C21: with two runs of one airline interleaved on one store, no state has
\* more than one row for a code, and once an upsert is committed the row of
\* the airline is, field for field, the record of the run that committed last
C21_LastWriteWinsWhole ==
    /\ \A row \in table : Cardinality(RowsOf(table, row.airline_code)) <= 1
    /\ commits # <<>> => RaceRows = {to_db_tuple(Val(racePolicy[LastCommitted]))}

\* both runs had extracted before either wrote, their records differ, both
\* upserts are committed over an earlier row and neither run has returned
C21_Witness ==
    /\ \A r \in Runs : racePc[r] = "detect"
    /\ Len(commits) = 2
    /\ to_db_tuple(Val(racePolicy[1])) # to_db_tuple(Val(racePolicy[2]))
    /\ Cardinality(table) = Cardinality(ConfiguredCodes)

=============================================================================
